---- MODULE Spec2Model ----
(***************************************************************************)
(* State-machine model of the scheduling and notification engine of        *)
(* OS-Alarm-Reminder: the Durable Store (backend/storage.py), the Alarm    *)
(* Scheduler (backend/alarm_manager.py) and the Task Scheduler             *)
(* (backend/task_manager.py).                                              *)
(*                                                                         *)
(* Granularity: every `with self._lock:` block of a scheduler is one       *)
(* atomic step; everything a thread does between two such blocks (the      *)
(* callback, the store's temp-file write, the rename) is a step of its     *)
(* own, so that other threads, the clock and a crash can interleave.       *)
(* Time is the wall clock in centiseconds since Monday 2024-01-01T00:00.   *)
(***************************************************************************)
EXTENDS Integers, Sequences, FiniteSets, TLC

\* ------------------------------------------------------------------ bounds
MaxAlarms == 2
MaxTasks == 2
MaxMonitored == 1
MaxDay == 1
MaxCrashes == 1
MaxCalls == 3

\* ------------------------------------------------------- program constants
TICK_SLEEP_S == 1
WAIT_TIMEOUT_S == 30
FIRE_WINDOW_S == 30
DEFAULT_REMINDER == 10

\* ------------------------------------------------------------- time units
CsPerSecond == 100
CsPerMinute == 60 * CsPerSecond
CsPerHour == 60 * CsPerMinute
CsPerDay == 24 * CsPerHour

_WEEKDAY_NAMES == <<"Mon", "Tue", "Wed", "Thu", "Fri", "Sat", "Sun">>

\* datetime.now() fields of a clock value
Second(c) == (c \div CsPerSecond) % 60
Minute(c) == (c \div CsPerMinute) % 60
Hour(c) == (c \div CsPerHour) % 24
Weekday(c) == (c \div CsPerDay) % 7
\* the calendar minute a clock value lies in
MinuteOf(c) == c \div CsPerMinute

\* f"{n:02d}"
Pad2(n) == IF n < 10 THEN "0" \o ToString(n) ELSE ToString(n)
\* f"{hh}:{mm}" of the tick's captured time
HHMM(c) == Pad2(Hour(c)) \o ":" \o Pad2(Minute(c))
DayName(c) == _WEEKDAY_NAMES[Weekday(c) + 1]

Min(S) == CHOOSE x \in S : \A y \in S : x <= y

\* ------------------------------------------------------------- threads
Callers == {"c1"}
Threads == {"ticker", "monitor"} \cup Callers
NoThread == "none"

\* ------------------------------------------------------------- files
_ALARMS_FILE == "alarms.json"
_TASKS_FILE == "tasks.json"
\* (mutant) a write that goes straight to the target file
TmpOf_InPlace(path) == path
\* tmp = path + ".tmp"
TmpOf(path) == path \o ".tmp"
Targets == {_ALARMS_FILE, _TASKS_FILE}
Paths == {_ALARMS_FILE, _TASKS_FILE, TmpOf(_ALARMS_FILE), TmpOf(_TASKS_FILE)}

\* A file: absent, or a JSON text.  `whole` is false for a text that stops
\* before the document is complete (it does not parse); `key` is the single
\* member name of the top-level object and `rows` the records of its array.
\* `shape` tells what JSON value a text that parses holds: "doc", an object
\* whose member `key` is the array `rows`; "list", a top-level array; "scalar",
\* an object whose member `key` is a number.
AbsentFile == [exists |-> FALSE, whole |-> FALSE, key |-> "", rows |-> <<>>, shape |-> "doc"]
JsonText(key, rows) ==
    [exists |-> TRUE, whole |-> TRUE, key |-> key, rows |-> rows, shape |-> "doc"]
\* what the temp file holds after open(tmp, "w") and before json.dump is over
PartialText(key, rows, n) ==
    [exists |-> TRUE, whole |-> FALSE, key |-> key, rows |-> SubSeq(rows, 1, n), shape |-> "doc"]
\* a text that parses to a JSON array, as `[]`
JsonListText ==
    [exists |-> TRUE, whole |-> TRUE, key |-> "", rows |-> <<>>, shape |-> "list"]
\* a text that parses to an object whose member `key` is a number, as {"alarms": 5}
JsonScalarText(key) ==
    [exists |-> TRUE, whole |-> TRUE, key |-> key, rows |-> <<>>, shape |-> "scalar"]

VARIABLES
    up,          \* the server process is alive
    crashes,     \* crashes so far
    clock,       \* wall clock, centiseconds
    files,       \* path -> file
    storeLock,   \* holder of storage._lock
    pc,          \* thread -> position
    snap,        \* thread -> the list _persist handed to storage.save_*
    loader,      \* a reader of the store: the load it waits for, the text it read
    faults,      \* exceptions so far: where one left a call or a thread, where one was caught
    ret,         \* caller -> the CRUD call in progress and its return value
    mgrLock,     \* scheduler -> the thread inside a `with self._lock` block of it
    snd,         \* the sound engine: the host's audio mechanisms, the AlarmPlayer thread
    kept,        \* caller -> the value a get or get_all call returned, which it kept
    calls,       \* CRUD calls made so far
    alarmObj,    \* reference -> Alarm object (the stored ones, and those the ticker still holds)
    alarmKeys,   \* keys of AlarmManager._alarms (key k refers to object k)
    nextAlarm,   \* the next fresh alarm id (uuid4 never repeats)
    alarmRun,    \* AlarmManager._running
    tick,        \* the ticker's locals: now, candidates
    rings,       \* reference -> on_ring calls in the calendar minute of `clock`
    watch,       \* alarms the one-fire-per-minute property is watching in this minute
    taskObj,     \* reference -> Task object
    taskKeys,    \* keys of TaskManager._tasks
    nextTask,    \* the next fresh task id
    taskRun,     \* TaskManager._running
    mon,         \* the monitor's locals: now, tasks
    notes,       \* reference -> OS notifications dispatched, callbacks invoked
    latched,     \* tasks whose reminder_fired latch is committed in memory and on disk
    cleared      \* tasks an update call was given reminder_fired=False for

vars == <<up, crashes, clock, files, storeLock, pc, snap, loader, faults, ret, kept, snd, mgrLock, calls,
          alarmObj, alarmKeys, nextAlarm, alarmRun, tick, rings, watch,
          taskObj, taskKeys, nextTask, taskRun, mon, notes, latched, cleared>>

procVars == <<up, crashes, calls>>
alarmVars == <<alarmObj, alarmKeys, nextAlarm, alarmRun, tick, rings, watch>>
taskVars == <<taskObj, taskKeys, nextTask, taskRun, mon, notes, latched, cleared>>

\* both scheduler locks free
NoHolder == [m \in {"alarm", "task"} |-> NoThread]

\* self._lock of scheduler m can be acquired
Unlocked(m) == mgrLock[m] = NoThread

\* (mutant) a block that keeps the lock for the statements after it
WithExit_StillHeld(th) == th

\* (mutant) a CRUD method that calls _persist inside its locked block
WithExit_HeldByCallers(th) == IF th \in Callers THEN th ELSE NoThread

\* the holder of a scheduler lock when thread th has left its `with
\* self._lock` block: the block releases the lock on exit
WithExit(th) == NoThread

\* no exception has been raised
NoFaults == [raised |-> {}, caught |-> {}]

\* a reader that is not loading
IdleLoader == [pc |-> "idle", path |-> "", doc |-> AbsentFile, rows |-> <<>>]

\* ------------------------------------------------------------- records
\* models.Alarm (sound is carried like label and left out)
NewAlarm(id, spec) ==
    [id |-> id, time |-> spec.time, label |-> spec.label, repeat |-> spec.repeat,
     active |-> spec.active, ringing |-> FALSE]

\* models.AlarmCreate bodies the callers send
AlarmCreates ==
    { [time |-> "07:00", label |-> "", repeat |-> {}, active |-> TRUE],
      [time |-> "07:00", label |-> "gym", repeat |-> {"Tue"}, active |-> TRUE],
      [time |-> "07:01", label |-> "", repeat |-> {}, active |-> FALSE] }

\* keyword arguments of update(): `set` are the keywords given with a value,
\* `none` the keywords given as None
Kw(set, none) == [set |-> set, none |-> none]
NoFields == [f \in {} |-> FALSE]

AlarmPartials ==
    { Kw([ringing |-> FALSE], {}),
      Kw([active |-> FALSE], {}),
      Kw([active |-> TRUE], {}),
      Kw(NoFields, {"label"}) }

\* (mutant) an update that stores None for a keyword given as None
ApplyPartial_StoresNone(obj, kw) ==
    [f \in DOMAIN obj |->
       IF f \in DOMAIN kw.set THEN kw.set[f]
       ELSE IF f \in kw.none THEN "None" ELSE obj[f]]

\* update() given, as the id keyword, an id that add() has issued
AlarmIdPartials == { Kw([id |-> j], {}) : j \in 1..(nextAlarm - 1) }

\* (mutant) an update that takes a false value for a missing one
ApplyPartial_Truthy(obj, kw) ==
    [f \in DOMAIN obj |->
       IF f \in DOMAIN kw.set /\ kw.set[f] # FALSE THEN kw.set[f] ELSE obj[f]]

\* the loop body of update(): for k, v in kwargs.items():
\*     if v is not None and hasattr(obj, k): setattr(obj, k, v)
ApplyPartial(obj, kw) ==
    [f \in DOMAIN obj |-> IF f \in DOMAIN kw.set THEN kw.set[f] ELSE obj[f]]

\* list(d.values()) of a dict whose keys were inserted in increasing order
RECURSIVE KeyList(_)
KeyList(S) ==
    IF S = {} THEN <<>> ELSE <<Min(S)>> \o KeyList(S \ {Min(S)})

\* [a.model_dump() for a in self._alarms.values()]
Dump(objs, keys) == [i \in 1..Cardinality(keys) |-> objs[KeyList(keys)[i]]]

\* objects no dict entry and no local of an evaluator refers to are garbage
Collect(objs, keys, held) ==
    [r \in DOMAIN objs \cap (keys \cup held) |-> objs[r]]

Range(s) == {s[i] : i \in DOMAIN s}

\* ------------------------------------------------------------- CRUD calls
NoKw == Kw(NoFields, {})
NoCall == [op |-> "none", mgr |-> "none", id |-> 0, found |-> FALSE, kw |-> NoKw]
Call(op, mgr, id, found) ==
    [op |-> op, mgr |-> mgr, id |-> id, found |-> found, kw |-> NoKw]

\* the host's audio mechanisms: sounddevice and simpleaudio are "ok",
\* "raises" (imported, playing fails) or "absent" (the import failed);
\* `system` is platform.system(); the platform's player plays ("ok"), cannot
\* be spawned ("raises") or is spawned and exits without playing ("fails")
Hosts ==
    [sd : {"ok", "raises", "absent"}, sa : {"ok", "raises", "absent"},
     system : {"Linux", "Other"}, player : {"ok", "raises", "fails"}]

\* an AlarmPlayer constructed on host `env`: thread not started, event clear
NewPlayer(env) ==
    [env |-> env, pc |-> "unstarted", stop |-> FALSE, tried |-> <<>>, heard |-> "none",
     wake |-> 0]

\* no AlarmPlayer is in use
NoSound == NewPlayer([sd |-> "absent", sa |-> "absent", system |-> "Linux", player |-> "ok"])

\* what a caller keeps of a returned value: the references it was handed and
\* the fields it read through them when the call returned
NoValue == [mgr |-> "none", refs |-> <<>>, seen |-> <<>>]

\* a caller enters a CRUD method
Enter(c) == up /\ pc[c] = "idle" /\ calls < MaxCalls /\ calls' = calls + 1

MgrOf(th) ==
    IF th = "ticker" THEN "alarm" ELSE IF th = "monitor" THEN "task" ELSE ret[th].mgr

\* references the ticker still holds: the candidates left and the one being fired
TickHeld == Range(tick.cands) \cup tick.cur

\* (mutant) a lookup that finds every id
Found_Always(keys, id) == TRUE

\* self._alarms.get(id) / `id not in self._alarms`: the lookup by key
Found(keys, id) == id \in keys

\* the value a caller keeps of a call that returned the objects `refs` of `objs`
Value(mgr, objs, refs) ==
    [mgr |-> mgr, refs |-> refs, seen |-> [i \in DOMAIN refs |-> objs[refs[i]]]]

\* AlarmManager.get: with self._lock: return self._alarms.get(alarm_id), the
\* stored object itself or None; `keep`: the caller keeps what it was handed
AlarmGetAs(c, id, keep) ==
    /\ Enter(c)
    /\ Unlocked("alarm")
    /\ mgrLock' = [mgrLock EXCEPT !["alarm"] = WithExit(c)]
    /\ ret' = [ret EXCEPT ![c] = Call("get", "alarm", id, Found(alarmKeys, id))]
    /\ pc' = [pc EXCEPT ![c] = "return"]
    /\ kept' = IF keep
               THEN [kept EXCEPT ![c] = IF Found(alarmKeys, id)
                                        THEN Value("alarm", alarmObj, <<id>>) ELSE NoValue]
               ELSE kept
    /\ UNCHANGED <<up, crashes, clock, loader, snd, faults, files, storeLock, snap, alarmVars, taskVars>>

\* AlarmManager.get, the result used at once and dropped
AlarmGet(c, id) == AlarmGetAs(c, id, FALSE)

\* AlarmManager.get, the result kept by the caller
AlarmGetKept(c, id) == AlarmGetAs(c, id, TRUE)

\* AlarmManager.get_all: with self._lock: return list(self._alarms.values()),
\* a new list of the stored objects
AlarmGetAll(c) ==
    /\ Enter(c)
    /\ Unlocked("alarm")
    /\ mgrLock' = [mgrLock EXCEPT !["alarm"] = WithExit(c)]
    /\ ret' = [ret EXCEPT ![c] = Call("get_all", "alarm", 0, TRUE)]
    /\ pc' = [pc EXCEPT ![c] = "return"]
    /\ kept' = [kept EXCEPT ![c] = Value("alarm", alarmObj, KeyList(alarmKeys))]
    /\ UNCHANGED <<up, crashes, clock, loader, snd, faults, files, storeLock, snap, alarmVars, taskVars>>

\* AlarmManager.add, up to the call of _persist
AlarmAdd(c, spec) ==
    /\ Enter(c)
    /\ Unlocked("alarm")
    /\ mgrLock' = [mgrLock EXCEPT !["alarm"] = WithExit(c)]
    /\ nextAlarm <= MaxAlarms
    /\ alarmObj' = (nextAlarm :> NewAlarm(nextAlarm, spec)) @@ alarmObj
    /\ alarmKeys' = alarmKeys \cup {nextAlarm}
    /\ nextAlarm' = nextAlarm + 1
    /\ ret' = [ret EXCEPT ![c] = Call("add", "alarm", nextAlarm, TRUE)]
    /\ pc' = [pc EXCEPT ![c] = "persist"]
    /\ UNCHANGED <<up, crashes, clock, loader, kept, snd, faults, files, storeLock, snap, alarmRun, tick, rings,
                   watch, taskVars>>

\* AlarmManager.update, up to the call of _persist; dismiss() is
\* update(id, ringing=False) after the no-op _stop_player
AlarmUpdateAs(c, op, id, kw) ==
    /\ Enter(c)
    /\ Unlocked("alarm")
    /\ mgrLock' = [mgrLock EXCEPT !["alarm"] = WithExit(c)]
    /\ ret' = [ret EXCEPT ![c] = [Call(op, "alarm", id, Found(alarmKeys, id)) EXCEPT !.kw = kw]]
    /\ IF Found(alarmKeys, id)
       THEN /\ alarmObj' = [alarmObj EXCEPT ![id] = ApplyPartial(@, kw)]
            /\ pc' = [pc EXCEPT ![c] = "persist"]
            /\ watch' = IF op = "dismiss" THEN watch ELSE watch \ {id}
       ELSE /\ pc' = [pc EXCEPT ![c] = "return"]
            /\ UNCHANGED <<alarmObj, watch>>
    /\ UNCHANGED <<up, crashes, clock, loader, kept, snd, faults, files, storeLock, snap, alarmKeys, nextAlarm,
                   alarmRun, tick, rings, taskVars>>

AlarmUpdate(c, id, kw) == AlarmUpdateAs(c, "update", id, kw)

AlarmDismiss(c, id) == AlarmUpdateAs(c, "dismiss", id, Kw([ringing |-> FALSE], {}))

\* AlarmManager.delete, up to the call of _persist
AlarmDelete(c, id) ==
    /\ Enter(c)
    /\ Unlocked("alarm")
    /\ mgrLock' = [mgrLock EXCEPT !["alarm"] = WithExit(c)]
    /\ ret' = [ret EXCEPT ![c] = Call("delete", "alarm", id, Found(alarmKeys, id))]
    /\ IF Found(alarmKeys, id)
       THEN /\ alarmKeys' = alarmKeys \ {id}
            /\ alarmObj' = Collect(alarmObj, alarmKeys', TickHeld)
            /\ pc' = [pc EXCEPT ![c] = "persist"]
            /\ watch' = watch \ {id}
       ELSE /\ pc' = [pc EXCEPT ![c] = "return"]
            /\ UNCHANGED <<alarmObj, alarmKeys, watch>>
    /\ UNCHANGED <<up, crashes, clock, loader, kept, snd, faults, files, storeLock, snap, nextAlarm, alarmRun,
                   tick, rings, taskVars>>

\* ------------------------------------------------------------- lifecycle
\* (mutant) a start that leaves a started thread alone
StartError_None(name) == {}

\* Thread.start() on a thread that was started before:
\* RuntimeError("threads can only be started once"), which start() lets through
StartError(name) == {name}

\* AlarmManager.start on a scheduler never started, as the application's
\* lifespan calls it: the flag is set, then Thread.start() runs the loop
AlarmStart ==
    /\ up /\ pc["ticker"] = "unstarted"
    /\ alarmRun' = TRUE
    /\ pc' = [pc EXCEPT !["ticker"] = "loop"]
    /\ UNCHANGED <<procVars, clock, loader, kept, snd, mgrLock, faults, files, storeLock, snap, ret, alarmObj,
                   alarmKeys, nextAlarm, tick, rings, watch, taskVars>>

\* AlarmManager.start on a scheduler started before (running, stopped or
\* exited): the flag is set, then Thread.start() raises
AlarmStartAgain ==
    /\ up /\ pc["ticker"] # "unstarted"
    /\ alarmRun' = TRUE
    /\ faults' = [faults EXCEPT !.raised = @ \cup StartError("AlarmManager.start")]
    /\ UNCHANGED <<procVars, clock, loader, kept, snd, mgrLock, files, storeLock, pc, snap, ret, alarmObj,
                   alarmKeys, nextAlarm, tick, rings, watch, taskVars>>

\* AlarmManager.stop
AlarmStop ==
    /\ up
    /\ alarmRun' = FALSE
    /\ watch' = {}
    /\ UNCHANGED <<procVars, clock, loader, kept, snd, mgrLock, faults, files, storeLock, pc, snap, ret, alarmObj,
                   alarmKeys, nextAlarm, tick, rings, taskVars>>

\* ------------------------------------------------------------- alarm ticker
IdleTick == [now |-> 0, cands |-> <<>>, cur |-> {}, wake |-> 0]

\* time.sleep(1) returns no earlier than one second after the call
SleepFrom(c) == [IdleTick EXCEPT !.wake = c + TICK_SLEEP_S * CsPerSecond]

\* (mutant) the scan without the test of the ringing flag
ShouldFire_IgnoresRinging(alarm, now) ==
    /\ alarm.active
    /\ alarm.time = HHMM(now)
    /\ (alarm.repeat = {} \/ DayName(now) \in alarm.repeat)

\* (mutant) the scan without the repeat test
ShouldFire_NoRepeatTest(alarm, now) ==
    alarm.active /\ ~alarm.ringing /\ alarm.time = HHMM(now)

\* the three `continue` tests of the scan, on the time the tick captured
ShouldFire(alarm, now) ==
    /\ alarm.active /\ ~alarm.ringing
    /\ alarm.time = HHMM(now)
    /\ (alarm.repeat = {} \/ DayName(now) \in alarm.repeat)

\* (mutant) a loop that never tests its flag
LoopExits_Never(running) == FALSE

\* `while self._running.is_set():` of both loops: the loop is left when the
\* flag is found cleared
LoopExits(running) == ~running

\* while self._running.is_set(): now = datetime.now(); if ss == 0: ...
TickLoop ==
    /\ up /\ pc["ticker"] = "loop"
    /\ IF LoopExits(alarmRun)
       THEN /\ pc' = [pc EXCEPT !["ticker"] = "done"]
            /\ tick' = IdleTick
       ELSE IF Second(clock) = 0
       THEN /\ pc' = [pc EXCEPT !["ticker"] = "snapshot"]
            /\ tick' = [IdleTick EXCEPT !.now = clock]
       ELSE /\ pc' = [pc EXCEPT !["ticker"] = "sleep"]
            /\ tick' = SleepFrom(clock)
    /\ UNCHANGED <<procVars, clock, loader, kept, snd, mgrLock, faults, files, storeLock, snap, ret, alarmObj, alarmKeys,
                   nextAlarm, alarmRun, rings, watch, taskVars>>

\* with self._lock: candidates = list(self._alarms.values())
TickSnapshot ==
    /\ up /\ pc["ticker"] = "snapshot"
    /\ Unlocked("alarm")
    /\ mgrLock' = [mgrLock EXCEPT !["alarm"] = WithExit("ticker")]
    /\ tick' = [tick EXCEPT !.cands = KeyList(alarmKeys)]
    /\ pc' = [pc EXCEPT !["ticker"] = "check"]
    /\ UNCHANGED <<procVars, clock, loader, kept, snd, faults, files, storeLock, snap, ret, alarmObj, alarmKeys,
                   nextAlarm, alarmRun, rings, watch, taskVars>>

\* for alarm in candidates: the tests on the live object, then _fire or continue;
\* after the last candidate, time.sleep(1)
TickCheck ==
    /\ up /\ pc["ticker"] = "check"
    /\ IF tick.cands = <<>>
       THEN /\ pc' = [pc EXCEPT !["ticker"] = "sleep"]
            /\ tick' = SleepFrom(clock)
            /\ UNCHANGED alarmObj
       ELSE LET a == Head(tick.cands) IN
            IF ShouldFire(alarmObj[a], tick.now)
            THEN /\ pc' = [pc EXCEPT !["ticker"] = "fire_set"]
                 /\ tick' = [tick EXCEPT !.cands = Tail(@), !.cur = {a}]
                 /\ UNCHANGED alarmObj
            ELSE /\ tick' = [tick EXCEPT !.cands = Tail(@)]
                 /\ alarmObj' = Collect(alarmObj, alarmKeys, Range(Tail(tick.cands)))
                 /\ UNCHANGED pc
    /\ UNCHANGED <<procVars, clock, loader, kept, snd, mgrLock, faults, files, storeLock, snap, ret, alarmKeys,
                   nextAlarm, alarmRun, rings, watch, taskVars>>

\* _fire: with self._lock: alarm.ringing = True
TickFireSet ==
    /\ up /\ pc["ticker"] = "fire_set"
    /\ Unlocked("alarm")
    /\ mgrLock' = [mgrLock EXCEPT !["alarm"] = WithExit("ticker")]
    /\ alarmObj' = [r \in DOMAIN alarmObj |->
                      IF r \in tick.cur THEN [alarmObj[r] EXCEPT !.ringing = TRUE]
                      ELSE alarmObj[r]]
    /\ pc' = [pc EXCEPT !["ticker"] = "fire_cb"]
    /\ UNCHANGED <<procVars, clock, loader, kept, snd, faults, files, storeLock, snap, ret, alarmKeys,
                   nextAlarm, alarmRun, tick, rings, watch, taskVars>>

\* (mutant) a handler that lets the exception through
ExceptPass_Reraises(next) == "dead"

\* try: ... / except Exception: pass -- where the thread is after the call in
\* the try block raised, `next` being where it is after the call returned
ExceptPass(next) == next

\* the exceptions on record after a try block caught one more
Caught(f, what) == [f EXCEPT !.caught = @ \cup {what}]

\* _fire: self._on_ring(alarm.id) in try/except; `raised`: the callback raises
TickFireCbAs(raised) ==
    /\ up /\ pc["ticker"] = "fire_cb"
    /\ rings' = [r \in DOMAIN rings |-> IF r \in tick.cur THEN rings[r] + 1 ELSE rings[r]]
    /\ pc' = [pc EXCEPT !["ticker"] = IF raised THEN ExceptPass("persist") ELSE "persist"]
    /\ faults' = IF raised THEN Caught(faults, "on_ring") ELSE faults
    /\ UNCHANGED <<procVars, clock, loader, kept, snd, mgrLock, files, storeLock, snap, ret, alarmObj, alarmKeys,
                   nextAlarm, alarmRun, tick, watch, taskVars>>

\* _fire: self._on_ring(alarm.id) returns
TickFireCb == TickFireCbAs(FALSE)

\* _fire: self._on_ring(alarm.id) raises, the exception is discarded
TickFireCbRaises == TickFireCbAs(TRUE)

\* time.sleep(1) returns
TickWake ==
    /\ up /\ pc["ticker"] = "sleep"
    /\ clock >= tick.wake
    /\ pc' = [pc EXCEPT !["ticker"] = "loop"]
    /\ tick' = IdleTick
    /\ UNCHANGED <<procVars, clock, loader, kept, snd, mgrLock, faults, files, storeLock, snap, ret, alarmObj, alarmKeys,
                   nextAlarm, alarmRun, rings, watch, taskVars>>

\* ------------------------------------------------------------- tasks
\* models.Task (color is carried like title and left out)
NewTask(id, spec) ==
    [id |-> id, title |-> spec.title, date |-> spec.date, time |-> spec.time,
     reminder |-> spec.reminder, done |-> FALSE, reminder_fired |-> FALSE]

\* models.TaskCreate bodies the callers send
TaskCreates ==
    { [title |-> "t", date |-> "2024-01-01", time |-> "10:00", reminder |-> DEFAULT_REMINDER],
      [title |-> "t", date |-> "", time |-> "10:00", reminder |-> DEFAULT_REMINDER],
      [title |-> "t", date |-> "2024-01-01", time |-> "25:00", reminder |-> DEFAULT_REMINDER] }

\* keyword arguments the callers give update() while the monitor runs
TaskPartials ==
    { Kw([done |-> TRUE], {}),
      Kw([title |-> "u"], {}),
      Kw([reminder_fired |-> FALSE], {}) }

\* update() given a keyword as None
TaskNonePartials == { Kw(NoFields, {"title"}) }

\* datetime.fromisoformat(f"{date}T{time}") on the strings the callers send:
\* the date part as days and the time part as minutes, -1 for a ValueError
IsoDate(s) == IF s = "2024-01-01" THEN 0 ELSE IF s = "2024-01-02" THEN 1 ELSE 0 - 1
IsoTime(s) == IF s = "10:00" THEN 10 * 60 ELSE 0 - 1
ParsesAsDateTime(date, time) == IsoDate(date) >= 0 /\ IsoTime(time) >= 0

\* reminder_dt = task_dt - timedelta(minutes=task.reminder)
ReminderDue(task) ==
    IsoDate(task.date) * CsPerDay + IsoTime(task.time) * CsPerMinute
      - task.reminder * CsPerMinute

\* (mutant) a window that closes before the next pass can come
InWindow_Narrow(delta) == 0 <= delta /\ delta <= 10 * CsPerSecond

\* (mutant) a window that is open at its end
InWindow_OpenEnd(delta) == 0 <= delta /\ delta < FIRE_WINDOW_S * CsPerSecond

\* if 0 <= delta <= 30
InWindow(delta) == 0 <= delta /\ delta <= FIRE_WINDOW_S * CsPerSecond

\* the tests of one task in a pass, on the time the pass captured
NoNotes == [os |-> 0, cb |-> 0]

\* the monitor's locals, and a record of its passes since the last CRUD call,
\* start or stop: `since` and `last` are the start times of the first and the
\* latest of the passes that came at most FIRE_WINDOW_S apart (-1: none),
\* `armed` the tasks the first of them found not done, not fired and dated
NoPasses == [since |-> 0 - 1, last |-> 0 - 1, armed |-> {}]
IdleMon == [now |-> 0, tasks |-> <<>>, cur |-> {}, wake |-> 0, seen |-> NoPasses]

\* a task the tests of a pass do not skip before they look at the time
Dated(task) ==
    /\ ~task.done /\ ~task.reminder_fired
    /\ task.date # "" /\ task.time # ""
    /\ ParsesAsDateTime(task.date, task.time)

MonHeld == Range(mon.tasks) \cup mon.cur

\* the tests of one task in a pass, on the time the pass captured
ShouldRemind(task, now) == Dated(task) /\ InWindow(now - ReminderDue(task))

\* TaskManager.get: with self._lock: return self._tasks.get(task_id); `keep`:
\* the caller keeps what it was handed
TaskGetAs(c, id, keep) ==
    /\ Enter(c)
    /\ Unlocked("task")
    /\ mgrLock' = [mgrLock EXCEPT !["task"] = WithExit(c)]
    /\ ret' = [ret EXCEPT ![c] = Call("get", "task", id, Found(taskKeys, id))]
    /\ pc' = [pc EXCEPT ![c] = "return"]
    /\ kept' = IF keep
               THEN [kept EXCEPT ![c] = IF Found(taskKeys, id)
                                        THEN Value("task", taskObj, <<id>>) ELSE NoValue]
               ELSE kept
    /\ UNCHANGED <<up, crashes, clock, loader, snd, faults, files, storeLock, snap, alarmVars, taskVars>>

\* TaskManager.get, the result used at once and dropped
TaskGet(c, id) == TaskGetAs(c, id, FALSE)

\* TaskManager.get, the result kept by the caller
TaskGetKept(c, id) == TaskGetAs(c, id, TRUE)

\* TaskManager.get_all: with self._lock: return list(self._tasks.values())
TaskGetAll(c) ==
    /\ Enter(c)
    /\ Unlocked("task")
    /\ mgrLock' = [mgrLock EXCEPT !["task"] = WithExit(c)]
    /\ ret' = [ret EXCEPT ![c] = Call("get_all", "task", 0, TRUE)]
    /\ pc' = [pc EXCEPT ![c] = "return"]
    /\ kept' = [kept EXCEPT ![c] = Value("task", taskObj, KeyList(taskKeys))]
    /\ UNCHANGED <<up, crashes, clock, loader, snd, faults, files, storeLock, snap, alarmVars, taskVars>>

\* a caller assigns to a field of an object it was handed by get or get_all
\* (label of an alarm, title of a task): the object is the stored one
KeptWrite(c) ==
    /\ up /\ pc[c] = "idle"
    /\ \E i \in DOMAIN kept[c].refs :
          LET r == kept[c].refs[i]
          IN  IF kept[c].mgr = "alarm"
              THEN /\ r \in DOMAIN alarmObj /\ alarmObj[r].label # "mine"
                   /\ alarmObj' = [alarmObj EXCEPT ![r].label = "mine"]
                   /\ kept' = [kept EXCEPT ![c].seen[i].label = "mine"]
                   /\ UNCHANGED taskObj
              ELSE /\ r \in DOMAIN taskObj /\ taskObj[r].title # "mine"
                   /\ taskObj' = [taskObj EXCEPT ![r].title = "mine"]
                   /\ kept' = [kept EXCEPT ![c].seen[i].title = "mine"]
                   /\ UNCHANGED alarmObj
    /\ UNCHANGED <<procVars, clock, loader, snd, mgrLock, faults, files, storeLock, pc, snap, ret, alarmKeys,
                   nextAlarm, alarmRun, tick, rings, watch, taskKeys, nextTask, taskRun, mon,
                   notes, latched, cleared>>

\* TaskManager.add, up to the call of _persist
TaskAdd(c, spec) ==
    /\ Enter(c)
    /\ Unlocked("task")
    /\ mgrLock' = [mgrLock EXCEPT !["task"] = WithExit(c)]
    /\ nextTask <= MaxTasks
    /\ taskObj' = (nextTask :> NewTask(nextTask, spec)) @@ taskObj
    /\ taskKeys' = taskKeys \cup {nextTask}
    /\ nextTask' = nextTask + 1
    /\ ret' = [ret EXCEPT ![c] = Call("add", "task", nextTask, TRUE)]
    /\ pc' = [pc EXCEPT ![c] = "persist"]
    /\ mon' = [mon EXCEPT !.seen = NoPasses]
    /\ UNCHANGED <<up, crashes, clock, loader, kept, snd, faults, files, storeLock, snap, alarmVars, taskRun,
                   notes, latched, cleared>>

\* TaskManager.update, up to the call of _persist
TaskUpdate(c, id, kw) ==
    /\ Enter(c)
    /\ Unlocked("task")
    /\ mgrLock' = [mgrLock EXCEPT !["task"] = WithExit(c)]
    /\ ret' = [ret EXCEPT ![c] =
                  [Call("update", "task", id, Found(taskKeys, id)) EXCEPT !.kw = kw]]
    /\ IF Found(taskKeys, id)
       THEN /\ taskObj' = [taskObj EXCEPT ![id] = ApplyPartial(@, kw)]
            /\ pc' = [pc EXCEPT ![c] = "persist"]
            /\ mon' = [mon EXCEPT !.seen = NoPasses]
            /\ IF "reminder_fired" \in DOMAIN kw.set
               THEN cleared' = cleared \cup {id} /\ latched' = latched \ {id}
               ELSE UNCHANGED <<cleared, latched>>
       ELSE /\ pc' = [pc EXCEPT ![c] = "return"]
            /\ UNCHANGED <<taskObj, mon, cleared, latched>>
    /\ UNCHANGED <<up, crashes, clock, loader, kept, snd, faults, files, storeLock, snap, alarmVars, taskKeys,
                   nextTask, taskRun, notes>>

\* TaskManager.delete, up to the call of _persist
TaskDelete(c, id) ==
    /\ Enter(c)
    /\ Unlocked("task")
    /\ mgrLock' = [mgrLock EXCEPT !["task"] = WithExit(c)]
    /\ ret' = [ret EXCEPT ![c] = Call("delete", "task", id, Found(taskKeys, id))]
    /\ IF Found(taskKeys, id)
       THEN /\ taskKeys' = taskKeys \ {id}
            /\ taskObj' = Collect(taskObj, taskKeys', MonHeld)
            /\ pc' = [pc EXCEPT ![c] = "persist"]
            /\ latched' = latched \ {id}
            /\ mon' = [mon EXCEPT !.seen = NoPasses]
       ELSE /\ pc' = [pc EXCEPT ![c] = "return"]
            /\ UNCHANGED <<taskObj, taskKeys, mon, latched>>
    /\ UNCHANGED <<up, crashes, clock, loader, kept, snd, faults, files, storeLock, snap, alarmVars, nextTask,
                   taskRun, notes, cleared>>

\* TaskManager.start on a scheduler never started
TaskStart ==
    /\ up /\ pc["monitor"] = "unstarted"
    /\ taskRun' = TRUE
    /\ pc' = [pc EXCEPT !["monitor"] = "loop"]
    /\ UNCHANGED <<procVars, clock, loader, kept, snd, mgrLock, faults, files, storeLock, snap, ret, alarmVars,
                   taskObj, taskKeys, nextTask, mon, notes, latched, cleared>>

\* TaskManager.start on a scheduler started before: the flag is set, then
\* Thread.start() raises
TaskStartAgain ==
    /\ up /\ pc["monitor"] # "unstarted"
    /\ taskRun' = TRUE
    /\ faults' = [faults EXCEPT !.raised = @ \cup StartError("TaskManager.start")]
    /\ UNCHANGED <<procVars, clock, loader, kept, snd, mgrLock, files, storeLock, pc, snap, ret, alarmVars,
                   taskObj, taskKeys, nextTask, mon, notes, latched, cleared>>

\* TaskManager.stop
TaskStop ==
    /\ up
    /\ taskRun' = FALSE
    /\ mon' = [mon EXCEPT !.seen = NoPasses]
    /\ UNCHANGED <<procVars, clock, loader, kept, snd, mgrLock, faults, files, storeLock, pc, snap, ret, alarmVars, taskObj,
                   taskKeys, nextTask, notes, latched, cleared>>

\* ------------------------------------------------------------- reminder monitor
\* while self._running.is_set(): now = datetime.now()
MonLoop ==
    /\ up /\ pc["monitor"] = "loop"
    /\ IF LoopExits(taskRun)
       THEN /\ pc' = [pc EXCEPT !["monitor"] = "done"]
            /\ mon' = IdleMon
       ELSE /\ pc' = [pc EXCEPT !["monitor"] = "snapshot"]
            /\ mon' = [mon EXCEPT
                         !.now = clock,
                         !.seen = IF /\ mon.seen.last >= 0
                                     /\ clock - mon.seen.last <= FIRE_WINDOW_S * CsPerSecond
                                  THEN [mon.seen EXCEPT !.last = clock]
                                  ELSE [since |-> clock, last |-> clock, armed |-> {}]]
    /\ UNCHANGED <<procVars, clock, loader, kept, snd, mgrLock, faults, files, storeLock, snap, ret, alarmVars, taskObj,
                   taskKeys, nextTask, taskRun, notes, latched, cleared>>

\* with self._lock: tasks = list(self._tasks.values())
MonSnapshot ==
    /\ up /\ pc["monitor"] = "snapshot"
    /\ Unlocked("task")
    /\ mgrLock' = [mgrLock EXCEPT !["task"] = WithExit("monitor")]
    /\ mon' = [mon EXCEPT
                 !.tasks = KeyList(taskKeys),
                 !.seen = IF mon.seen.since = mon.seen.last /\ mon.seen.last = mon.now
                          THEN [mon.seen EXCEPT
                                  !.armed = {t \in taskKeys : Dated(taskObj[t])}]
                          ELSE mon.seen]
    /\ pc' = [pc EXCEPT !["monitor"] = "check"]
    /\ UNCHANGED <<procVars, clock, loader, kept, snd, faults, files, storeLock, snap, ret, alarmVars, taskObj,
                   taskKeys, nextTask, taskRun, notes, latched, cleared>>

\* for task in tasks: the tests on the live object, then _fire_reminder or
\* continue; after the last task, self._running.wait(timeout=30)
MonCheck ==
    /\ up /\ pc["monitor"] = "check"
    /\ IF mon.tasks = <<>>
       THEN /\ pc' = [pc EXCEPT !["monitor"] = "wait"]
            /\ mon' = [mon EXCEPT !.now = 0, !.wake = clock + WAIT_TIMEOUT_S * CsPerSecond]
            /\ UNCHANGED taskObj
       ELSE LET t == Head(mon.tasks) IN
            IF ShouldRemind(taskObj[t], mon.now)
            THEN /\ pc' = [pc EXCEPT !["monitor"] = "fire_set"]
                 /\ mon' = [mon EXCEPT !.tasks = Tail(@), !.cur = {t}]
                 /\ UNCHANGED taskObj
            ELSE /\ mon' = [mon EXCEPT !.tasks = Tail(@)]
                 /\ taskObj' = Collect(taskObj, taskKeys, Range(Tail(mon.tasks)))
                 /\ UNCHANGED pc
    /\ UNCHANGED <<procVars, clock, loader, kept, snd, mgrLock, faults, files, storeLock, snap, ret, alarmVars, taskKeys,
                   nextTask, taskRun, notes, latched, cleared>>

\* (mutant) a reminder fire that leaves the latch alone
MonFireSet_SkipsLatch ==
    /\ up /\ pc["monitor"] = "fire_set"
    /\ pc' = [pc EXCEPT !["monitor"] = "persist"]
    /\ UNCHANGED <<procVars, clock, loader, kept, snd, mgrLock, faults, files, storeLock, snap, ret, alarmVars,
                   taskObj, taskKeys, nextTask, taskRun, mon, notes, latched, cleared>>

\* _fire_reminder: with self._lock: t = self._tasks.get(task.id);
\*                                  if t: t.reminder_fired = True
MonFireSet ==
    /\ up /\ pc["monitor"] = "fire_set"
    /\ Unlocked("task")
    /\ mgrLock' = [mgrLock EXCEPT !["task"] = WithExit("monitor")]
    /\ taskObj' = [r \in DOMAIN taskObj |->
                     IF \E m \in mon.cur : r \in taskKeys /\ r = taskObj[m].id
                     THEN [taskObj[r] EXCEPT !.reminder_fired = TRUE]
                     ELSE taskObj[r]]
    /\ pc' = [pc EXCEPT !["monitor"] = "persist"]
    /\ UNCHANGED <<procVars, clock, loader, kept, snd, faults, files, storeLock, snap, ret, alarmVars, taskKeys,
                   nextTask, taskRun, mon, notes, latched, cleared>>

\* _fire_reminder: self._send_os_notification(...); `failed`: subprocess.Popen
\* raises (the notifier binary is absent or cannot be spawned), which the
\* function's own try/except discards; no notification is shown then
MonNotifyAs(failed) ==
    /\ up /\ pc["monitor"] = "notify"
    /\ notes' = [r \in DOMAIN notes |->
                   IF r \in mon.cur /\ ~failed THEN [notes[r] EXCEPT !.os = @ + 1]
                   ELSE notes[r]]
    /\ pc' = [pc EXCEPT !["monitor"] = IF failed THEN ExceptPass("callback") ELSE "callback"]
    /\ faults' = IF failed THEN Caught(faults, "notify") ELSE faults
    /\ UNCHANGED <<procVars, clock, loader, kept, snd, mgrLock, files, storeLock, snap, ret, alarmVars, taskObj,
                   taskKeys, nextTask, taskRun, mon, latched, cleared>>

\* _send_os_notification spawns the notifier
MonNotify == MonNotifyAs(FALSE)

\* _send_os_notification fails to spawn the notifier
MonNotifyFails == MonNotifyAs(TRUE)

\* _fire_reminder: self._on_reminder(task.id) in try/except; `raised`: the
\* callback raises
MonCallbackAs(raised) ==
    /\ up /\ pc["monitor"] = "callback"
    /\ notes' = [r \in DOMAIN notes |->
                   IF r \in mon.cur THEN [notes[r] EXCEPT !.cb = @ + 1] ELSE notes[r]]
    /\ pc' = [pc EXCEPT !["monitor"] = IF raised THEN ExceptPass("check") ELSE "check"]
    /\ faults' = IF raised THEN Caught(faults, "on_reminder") ELSE faults
    /\ mon' = [mon EXCEPT !.cur = {}]
    /\ taskObj' = Collect(taskObj, taskKeys, Range(mon.tasks))
    /\ UNCHANGED <<procVars, clock, loader, kept, snd, mgrLock, files, storeLock, snap, ret, alarmVars, taskKeys,
                   nextTask, taskRun, latched, cleared>>

\* _fire_reminder: self._on_reminder(task.id) returns
MonCallback == MonCallbackAs(FALSE)

\* _fire_reminder: self._on_reminder(task.id) raises, the exception is discarded
MonCallbackRaises == MonCallbackAs(TRUE)

\* self._running.wait(timeout=30) returns: at once when the flag is set,
\* otherwise when it becomes set or the timeout is over
MonWaitReturns ==
    /\ up /\ pc["monitor"] = "wait"
    /\ taskRun \/ clock >= mon.wake
    /\ pc' = [pc EXCEPT !["monitor"] = "loop"]
    /\ mon' = [mon EXCEPT !.wake = 0]
    /\ UNCHANGED <<procVars, clock, loader, kept, snd, mgrLock, faults, files, storeLock, snap, ret, alarmVars, taskObj,
                   taskKeys, nextTask, taskRun, notes, latched, cleared>>

\* ------------------------------------------------------------- persistence
PathOf(th) == IF MgrOf(th) = "alarm" THEN _ALARMS_FILE ELSE _TASKS_FILE
DocKey(path) == IF path = _ALARMS_FILE THEN "alarms" ELSE "tasks"

\* (mutant) a reminder fire that goes from the save to the callback
AfterSave_ToCallback(th) ==
    IF th = "ticker" THEN "check" ELSE IF th = "monitor" THEN "callback" ELSE "return"

\* where a thread goes on when storage.save_* has returned
AfterSave(th) ==
    IF th = "ticker" THEN "check" ELSE IF th = "monitor" THEN "notify" ELSE "return"

\* tasks whose latch is set both in the collection and in the committed document
Committed(objs, keys, file) ==
    {k \in keys : /\ objs[k].reminder_fired
                  /\ file.whole
                  /\ \E i \in DOMAIN file.rows :
                        file.rows[i].id = k /\ file.rows[i].reminder_fired}

\* AlarmManager._persist / TaskManager._persist: the snapshot taken under the lock
Persist(th) ==
    /\ up /\ pc[th] = "persist"
    /\ Unlocked(MgrOf(th))
    /\ mgrLock' = [mgrLock EXCEPT ![MgrOf(th)] = WithExit(th)]
    /\ snap' = [snap EXCEPT ![th] = IF MgrOf(th) = "alarm"
                                    THEN Dump(alarmObj, alarmKeys)
                                    ELSE Dump(taskObj, taskKeys)]
    /\ pc' = [pc EXCEPT ![th] = "save_open"]
    /\ UNCHANGED <<procVars, clock, loader, kept, snd, faults, files, storeLock, ret, alarmVars, taskVars>>

\* storage.save_*: with _lock: ... _write: the temp file is opened, written by
\* json.dump and closed; no other thread of the process reads it meanwhile
SaveWrite(th) ==
    /\ up /\ pc[th] = "save_open"
    /\ storeLock = NoThread
    /\ storeLock' = th
    /\ files' = [files EXCEPT ![TmpOf(PathOf(th))] =
                    JsonText(DocKey(PathOf(th)), snap[th])]
    /\ pc' = [pc EXCEPT ![th] = "save_replace"]
    /\ UNCHANGED <<procVars, clock, loader, kept, snd, mgrLock, faults, snap, ret, alarmVars, taskVars>>

\* _write: open(tmp, "w") under the store lock creates or truncates the temp file
SaveOpen(th) ==
    /\ up /\ pc[th] = "save_open"
    /\ storeLock = NoThread
    /\ storeLock' = th
    /\ files' = [files EXCEPT ![TmpOf(PathOf(th))] =
                    PartialText(DocKey(PathOf(th)), snap[th], 0)]
    /\ pc' = [pc EXCEPT ![th] = "save_dump"]
    /\ UNCHANGED <<procVars, clock, loader, kept, snd, mgrLock, faults, snap, ret, alarmVars, taskVars>>

\* _write: json.dump writes the document to the temp file piece by piece, the
\* closing brackets last; leaving the `with` block closes the file
SaveDump(th) ==
    /\ up /\ pc[th] = "save_dump"
    /\ LET tmp == TmpOf(PathOf(th))
           n == Len(files[tmp].rows)
       IN  IF n < Len(snap[th])
           THEN /\ files' = [files EXCEPT ![tmp] =
                               PartialText(DocKey(PathOf(th)), snap[th], n + 1)]
                /\ UNCHANGED pc
           ELSE /\ files' = [files EXCEPT ![tmp] = JsonText(DocKey(PathOf(th)), snap[th])]
                /\ pc' = [pc EXCEPT ![th] = "save_replace"]
    /\ UNCHANGED <<procVars, clock, loader, kept, snd, mgrLock, faults, storeLock, snap, ret, alarmVars, taskVars>>

\* the files after os.replace(tmp, path)
Replaced(fs, path) ==
    [fs EXCEPT ![path] = fs[TmpOf(path)], ![TmpOf(path)] = AbsentFile]

\* _write: os.replace(tmp, path); the store lock is released and save_* returns
SaveReplace(th) ==
    /\ up /\ pc[th] = "save_replace"
    /\ files' = Replaced(files, PathOf(th))
    /\ storeLock' = NoThread
    /\ pc' = [pc EXCEPT ![th] = AfterSave(th)]
    /\ snap' = [snap EXCEPT ![th] = <<>>]
    /\ IF th = "ticker"
       THEN /\ tick' = [tick EXCEPT !.cur = {}]
            /\ alarmObj' = Collect(alarmObj, alarmKeys, Range(tick.cands))
       ELSE UNCHANGED <<tick, alarmObj>>
    /\ latched' = latched \cup Committed(taskObj, taskKeys, files'[_TASKS_FILE])
    /\ UNCHANGED <<procVars, clock, loader, kept, snd, mgrLock, faults, ret, alarmKeys, nextAlarm, alarmRun, rings, watch,
                   taskObj, taskKeys, nextTask, taskRun, mon, notes, cleared>>

\* where a thread is when storage.save_* raised: _persist and the CRUD method
\* pass the exception to the caller; _fire and _fire_reminder call _persist
\* outside any try block, so the exception leaves the loop and the evaluator
\* thread ends
AfterFailedSave(th) == IF th \in Callers THEN "return" ELSE "dead"

\* storage.save_*: _write raises OSError, at open(tmp, "w") (nothing written)
\* or at os.replace (the temp file stays); `with _lock` releases the store lock
SaveFails(th) ==
    /\ up
    /\ \/ pc[th] = "save_open" /\ storeLock = NoThread
       \/ pc[th] = "save_replace"
    /\ storeLock' = NoThread
    /\ pc' = [pc EXCEPT ![th] = AfterFailedSave(th)]
    /\ faults' = [faults EXCEPT !.raised = @ \cup {th}]
    /\ snap' = [snap EXCEPT ![th] = <<>>]
    /\ UNCHANGED <<procVars, clock, loader, kept, snd, mgrLock, files, ret, alarmVars, taskVars>>

\* a CRUD method returns to its caller: after _persist has returned, or at
\* once when the id was not found (or the call was get)
Return(c) ==
    /\ up /\ pc[c] = "return"
    /\ pc' = [pc EXCEPT ![c] = "idle"]
    /\ ret' = [ret EXCEPT ![c] = NoCall]
    /\ UNCHANGED <<procVars, clock, loader, kept, snd, mgrLock, faults, files, storeLock, snap, alarmVars, taskVars>>

\* ------------------------------------------------------------- wall clock
\* The instants of a day at which the alarm side is observed: the last
\* centisecond before 07:00, the first and the last of second 0, and the
\* first of second 1.  A tick at any other instant of the day scans nothing
\* (its second is not 0) or matches no alarm of AlarmCreates.
WatchBase == 7 * CsPerHour
WatchOffsets == {0 - 1, 0, CsPerSecond - 1, CsPerSecond}
AlarmInstants ==
    {d * CsPerDay + WatchBase + o : d \in 0..MaxDay, o \in WatchOffsets}
AlarmStartClock == WatchBase - 1

\* how late after its wake-up time a sleeping ticker may run for the minute to count
TickLatency == 1

\* alarms that are to fire in the minute of `c`, per the contract
DueAlarms(c) ==
    {a \in alarmKeys : /\ alarmObj[a].active /\ ~alarmObj[a].ringing
                       /\ alarmObj[a].repeat = {}
                       /\ alarmObj[a].time = HHMM(c)}

AdvanceAlarmClock ==
    /\ \E i \in AlarmInstants : i > clock
    /\ clock' = Min({i \in AlarmInstants : i > clock})
    /\ IF MinuteOf(clock') # MinuteOf(clock)
       THEN /\ rings' = [r \in DOMAIN rings |-> 0]
            /\ watch' = IF /\ up /\ alarmRun /\ pc["ticker"] = "sleep"
                            /\ tick.wake < clock' + CsPerSecond
                         THEN DueAlarms(clock') ELSE {}
       ELSE /\ UNCHANGED rings
            /\ watch' = IF pc["ticker"] = "sleep" /\ clock' > tick.wake + TickLatency
                         THEN {} ELSE watch
    /\ UNCHANGED <<loader, kept, snd, mgrLock, faults, procVars, files, storeLock, pc, snap, ret, alarmObj, alarmKeys,
                   nextAlarm, alarmRun, tick, taskVars>>

\* ------------------------------------------------------------- initial state
\* The process right after both managers were constructed on an empty data
\* directory: nothing loaded, no thread started.
InitProcess ==
    /\ up = TRUE /\ crashes = 0 /\ calls = 0
    /\ files = [p \in Paths |-> AbsentFile]
    /\ storeLock = NoThread
    /\ pc = [th \in Threads |-> IF th \in Callers THEN "idle" ELSE "unstarted"]
    /\ snap = [th \in Threads |-> <<>>]
    /\ loader = IdleLoader
    /\ faults = NoFaults
    /\ ret = [c \in Callers |-> NoCall]
    /\ kept = [c \in Callers |-> NoValue]
    /\ snd = NoSound
    /\ mgrLock = NoHolder
    /\ alarmObj = [k \in {} |-> 0] /\ alarmKeys = {} /\ nextAlarm = 1
    /\ alarmRun = FALSE /\ tick = IdleTick
    /\ rings = [r \in 1..MaxAlarms |-> 0] /\ watch = {}
    /\ taskObj = [k \in {} |-> 0] /\ taskKeys = {} /\ nextTask = 1
    /\ taskRun = FALSE /\ mon = IdleMon
    /\ notes = [r \in 1..MaxTasks |-> NoNotes]
    /\ latched = {} /\ cleared = {}

\* ------------------------------------------------------------- alarm scheduler
InitAlarm == InitProcess /\ clock = AlarmStartClock

NextAlarm ==
    \/ \E c \in Callers, id \in 1..MaxAlarms : AlarmGet(c, id)
    \/ \E c \in Callers, spec \in AlarmCreates : AlarmAdd(c, spec)
    \/ \E c \in Callers, id \in 1..MaxAlarms, kw \in AlarmPartials : AlarmUpdate(c, id, kw)
    \/ \E c \in Callers, id \in 1..MaxAlarms : AlarmDismiss(c, id)
    \/ \E c \in Callers, id \in 1..MaxAlarms : AlarmDelete(c, id)
    \/ AlarmStart
    \/ AlarmStop
    \/ TickLoop
    \/ TickSnapshot
    \/ TickCheck
    \/ TickFireSet
    \/ TickFireCb
    \/ TickWake
    \/ \E th \in Threads : Persist(th)
    \/ \E th \in Threads : SaveWrite(th)
    \/ \E th \in Threads : SaveReplace(th)
    \/ \E c \in Callers : Return(c)
    \/ AdvanceAlarmClock

SpecAlarm == InitAlarm /\ [][NextAlarm]_vars

\* ------------------------------------------------------------- a reader of the store
\* storage.load_alarms / load_tasks is called; the caller waits for the store lock
LoadBegin(path) ==
    /\ up /\ loader.pc = "idle"
    /\ loader' = [IdleLoader EXCEPT !.pc = "wait", !.path = path]
    /\ UNCHANGED <<procVars, clock, faults, kept, snd, mgrLock, files, storeLock, pc, snap, ret, alarmVars, taskVars>>

\* storage._read and data.get(key, []): no file, or a text that does not
\* parse, or an object without the member, give the empty list
LoadRows(file, key) ==
    IF file.exists /\ file.whole /\ file.shape = "doc" /\ file.key = key THEN file.rows ELSE <<>>

\* (mutant) a load that treats every document it cannot use as empty
LoadRaises_Never(file, key) == FALSE

\* load_*: json.load returned a value that is not a dict, so `data.get` raises
\* AttributeError, or the member is not iterable, so `list(...)` raises
\* TypeError; neither is caught by _read, load_* or _load
LoadRaises(file, key) ==
    /\ file.exists /\ file.whole
    /\ file.shape = "list" \/ (file.shape = "scalar" /\ file.key = key)

\* with _lock: data = _read(path); return list(data.get(key, []))
LoadRead ==
    /\ up /\ loader.pc = "wait"
    /\ storeLock = NoThread
    /\ loader' = [loader EXCEPT
                    !.pc = "idle",
                    !.doc = files[loader.path],
                    !.rows = LoadRows(files[loader.path], DocKey(loader.path))]
    /\ faults' = IF LoadRaises(files[loader.path], DocKey(loader.path))
                 THEN [faults EXCEPT !.raised = @ \cup {"load"}] ELSE faults
    /\ UNCHANGED <<procVars, clock, kept, snd, mgrLock, files, storeLock, pc, snap, ret, alarmVars, taskVars>>

\* for row in rows: o = Model(**row); self._dict[o.id] = o  -- a later row
\* replaces an earlier one of the same id
LoadedKeys(rows) == {rows[i].id : i \in DOMAIN rows}
LastRow(rows, k) ==
    rows[CHOOSE i \in DOMAIN rows :
           rows[i].id = k /\ \A j \in DOMAIN rows : rows[j].id = k => j <= i]

\* TaskManager._load
LoadTasks(file) ==
    LET rows == LoadRows(file, "tasks") IN
    [k \in LoadedKeys(rows) |-> LastRow(rows, k)]

\* AlarmManager._load: a.ringing = False on every loaded alarm
LoadAlarms(file) ==
    LET rows == LoadRows(file, "alarms") IN
    [k \in LoadedKeys(rows) |-> [LastRow(rows, k) EXCEPT !.ringing = FALSE]]

\* the process dies: its memory, threads and locks are gone, the files stay
Crash ==
    /\ up /\ crashes < MaxCrashes
    /\ up' = FALSE /\ crashes' = crashes + 1
    /\ storeLock' = NoThread /\ mgrLock' = NoHolder
    /\ pc' = [th \in Threads |-> IF th \in Callers THEN "idle" ELSE "unstarted"]
    /\ snap' = [th \in Threads |-> <<>>]
    /\ loader' = IdleLoader
    /\ ret' = [c \in Callers |-> NoCall]
    /\ alarmObj' = [k \in {} |-> 0] /\ alarmKeys' = {} /\ alarmRun' = FALSE
    /\ tick' = IdleTick /\ watch' = {}
    /\ taskObj' = [k \in {} |-> 0] /\ taskKeys' = {} /\ taskRun' = FALSE
    /\ mon' = IdleMon
    /\ UNCHANGED <<calls, clock, faults, kept, snd, files, nextAlarm, rings, nextTask, notes, latched, cleared>>

\* the process is started again: main.py constructs both managers, each of
\* which loads its collection from its file
\* an exception in either constructor ends the start of the process
Restart ==
    /\ ~up
    /\ IF \/ LoadRaises(files[_ALARMS_FILE], "alarms")
          \/ LoadRaises(files[_TASKS_FILE], "tasks")
       THEN /\ faults' = [faults EXCEPT !.raised = @ \cup {"load"}]
            /\ UNCHANGED <<up, alarmObj, alarmKeys, taskObj, taskKeys>>
       ELSE /\ up' = TRUE
            /\ alarmObj' = LoadAlarms(files[_ALARMS_FILE])
            /\ alarmKeys' = DOMAIN alarmObj'
            /\ taskObj' = LoadTasks(files[_TASKS_FILE])
            /\ taskKeys' = DOMAIN taskObj'
            /\ UNCHANGED faults
    /\ UNCHANGED <<crashes, calls, clock, loader, kept, snd, mgrLock, files, storeLock, pc, snap, ret, nextAlarm,
                   alarmRun, tick, rings, watch, nextTask, taskRun, mon, notes, latched,
                   cleared>>

\* ------------------------------------------------------------- task scheduler
\* The instants at which the task side is observed, around the reminder time
\* 09:50:00 of the task of TaskCreates: one centisecond before it, at it, 15
\* and 30 seconds after it, and one centisecond after that.
Due0 == 9 * CsPerHour + 50 * CsPerMinute
TaskOffsets == {0 - 1, 0, 15 * CsPerSecond, 30 * CsPerSecond, 30 * CsPerSecond + 1}
TaskInstants == {Due0 + o : o \in TaskOffsets}
TaskStartClock == Due0 - 1

AdvanceTaskClock ==
    /\ \E i \in TaskInstants : i > clock
    /\ clock' = Min({i \in TaskInstants : i > clock})
    /\ UNCHANGED <<loader, kept, snd, mgrLock, faults, procVars, files, storeLock, pc, snap, ret, alarmVars, taskVars>>

InitTask == InitProcess /\ clock = TaskStartClock

NextTask ==
    \/ \E c \in Callers, spec \in TaskCreates : nextTask <= MaxMonitored /\ TaskAdd(c, spec)
    \/ \E c \in Callers, id \in 1..MaxMonitored, kw \in TaskPartials : TaskUpdate(c, id, kw)
    \/ \E c \in Callers, id \in 1..MaxMonitored : TaskDelete(c, id)
    \/ TaskStart
    \/ TaskStop
    \/ MonLoop
    \/ MonSnapshot
    \/ MonCheck
    \/ MonFireSet
    \/ MonNotify
    \/ MonCallback
    \/ MonWaitReturns
    \/ \E th \in Threads : Persist(th)
    \/ \E th \in Threads : SaveWrite(th)
    \/ \E th \in Threads : SaveReplace(th)
    \/ \E c \in Callers : Return(c)
    \/ AdvanceTaskClock
    \/ Crash
    \/ Restart

SpecTask == InitTask /\ [][NextTask]_vars

\* the task scheduler in one life of the process
NextMonitor ==
    \/ \E c \in Callers, spec \in TaskCreates : TaskAdd(c, spec)
    \/ \E c \in Callers, id \in 1..MaxTasks, kw \in TaskPartials : TaskUpdate(c, id, kw)
    \/ \E c \in Callers, id \in 1..MaxTasks : TaskDelete(c, id)
    \/ TaskStart
    \/ TaskStop
    \/ MonLoop
    \/ MonSnapshot
    \/ MonCheck
    \/ MonFireSet
    \/ MonNotify
    \/ MonCallback
    \/ MonWaitReturns
    \/ \E th \in Threads : Persist(th)
    \/ \E th \in Threads : SaveWrite(th)
    \/ \E th \in Threads : SaveReplace(th)
    \/ \E c \in Callers : Return(c)
    \/ AdvanceTaskClock

SpecMonitor == InitTask /\ [][NextMonitor]_vars

\* ------------------------------------------------------------- claims: alarm ticker
\* C1: every alarm that is active, has no repeat, is not ringing when the
\* minute begins and whose time is the current HH:MM has exactly one fire
\* recorded when the minute is over, whatever the timing of the ticks
\* (the ticker running, never asleep more than TickLatency past its wake-up
\* time, and asleep again after its last tick of the minute).
C1_ExactlyOneFirePerMinute ==
    [][(/\ MinuteOf(clock') # MinuteOf(clock)
        /\ pc["ticker"] = "sleep" /\ tick.wake > clock)
          => \A a \in watch : rings[a] = 1]_vars

\* C8: a tick scans only when the second it captured is 0; a candidate is
\* fired exactly when, as the tick examines it, it is active, not ringing, its
\* time is the tick's HH:MM and its repeat is empty or holds the tick's
\* weekday; ringing is set by no other step of the ticker, and the ticker
\* removes nothing from the collection.
C8_FireIff ==
    [][/\ (pc["ticker"] = "loop" /\ pc'["ticker"] # "loop")
          => /\ (pc'["ticker"] = "snapshot") <=> (alarmRun /\ Second(clock) = 0)
             /\ pc'["ticker"] = "snapshot" => tick'.now = clock
       /\ (pc["ticker"] = "check" /\ tick.cands # <<>> /\ tick' # tick)
          => LET obj == alarmObj[Head(tick.cands)] IN
             /\ (pc'["ticker"] = "fire_set") <=>
                   /\ Second(tick.now) = 0
                   /\ obj.active /\ ~obj.ringing
                   /\ obj.time = HHMM(tick.now)
                   /\ (obj.repeat = {} \/ DayName(tick.now) \in obj.repeat)
             /\ pc'["ticker"] = "fire_set" => tick'.cur = {Head(tick.cands)}
       /\ \A a \in DOMAIN alarmObj \cap DOMAIN alarmObj' :
            (~alarmObj[a].ringing /\ alarmObj'[a].ringing)
               => pc["ticker"] = "fire_set" /\ tick.cur = {a}
       /\ (pc'["ticker"] # pc["ticker"]) => alarmKeys' = alarmKeys]_vars

\* an alarm for 07:00 that did not fire at 06:59:59 is ringing, fired once, in
\* second 0 of 07:00, next to a stored inactive alarm that is not
C8_Witness ==
    /\ HHMM(clock) = "07:00" /\ Second(clock) = 0
    /\ \E a \in alarmKeys :
          alarmObj[a].time = "07:00" /\ alarmObj[a].ringing /\ rings[a] = 1
    /\ \E b \in alarmKeys : ~alarmObj[b].active /\ ~alarmObj[b].ringing

\* ------------------------------------------------------------- claims: reminder monitor
\* C2: the OS notification and the reminder callback of a task are dispatched
\* at most once, over passes, CRUD calls that do not clear reminder_fired,
\* crashes and restarts.
C2_AtMostOneDispatch ==
    \A t \in DOMAIN notes : t \notin cleared => notes[t].os <= 1 /\ notes[t].cb <= 1

\* C3: while the monitor runs with its passes starting at most 30 seconds
\* apart, a task that the first of them found not done, not fired and dated
\* has been fired exactly once when a pass that started at or after its
\* reminder time is over.
C3_FiredExactlyOnce ==
    \A t \in mon.seen.armed :
       (/\ t \in taskKeys /\ t \notin cleared
        /\ pc["monitor"] \in {"wait", "loop"}
        /\ mon.seen.since <= ReminderDue(taskObj[t]) + FIRE_WINDOW_S * CsPerSecond
        /\ mon.seen.last >= ReminderDue(taskObj[t]))
       => taskObj[t].reminder_fired /\ notes[t] = [os |-> 1, cb |-> 1]

\* a task found before its reminder time, fired by a later pass of the same run
C3_Witness ==
    \E t \in mon.seen.armed :
       /\ t \in taskKeys /\ pc["monitor"] = "wait"
       /\ mon.seen.since < ReminderDue(taskObj[t])
       /\ mon.seen.last > ReminderDue(taskObj[t])
       /\ notes[t] = [os |-> 1, cb |-> 1]

\* C4: a reminder_fired latch that is set in the collection and committed to
\* the tasks file stays set in the collection, also after a reload from the
\* file, unless an update call is given reminder_fired=False (or the task is
\* deleted).
C4_LatchStaysSet ==
    \A t \in latched : t \in taskKeys => taskObj[t].reminder_fired

\* C7: a pass fires the task it examines exactly when the task is not done,
\* not fired, has a date and a time that parse, and the pass's time is from 0
\* to 30 seconds, both included, past date+time minus reminder minutes.
C7_RemindIff ==
    [][(pc["monitor"] = "check" /\ mon.tasks # <<>> /\ mon'.tasks = Tail(mon.tasks))
          => LET o == taskObj[Head(mon.tasks)]
                 delta == mon.now - ReminderDue(o)
             IN  (pc'["monitor"] = "fire_set") <=>
                   /\ ~o.done /\ ~o.reminder_fired
                   /\ o.date # "" /\ o.time # ""
                   /\ IsoDate(o.date) >= 0 /\ IsoTime(o.time) >= 0
                   /\ 0 <= delta /\ delta <= 30 * CsPerSecond]_vars

\* a pass is firing a task at delta exactly 30 seconds
C7_Witness ==
    /\ pc["monitor"] = "fire_set"
    /\ \E t \in mon.cur : mon.now - ReminderDue(taskObj[t]) = 30 * CsPerSecond

\* ------------------------------------------------------------- the store under CRUD calls
\* Both schedulers with their CRUD surface, saves written piece by piece, a
\* reader of the store, crash and restart; no evaluator runs.
InitStore == InitProcess /\ clock = AlarmStartClock

NextStore ==
    \/ \E c \in Callers, id \in 1..MaxAlarms : AlarmGet(c, id)
    \/ \E c \in Callers, spec \in AlarmCreates : AlarmAdd(c, spec)
    \/ \E c \in Callers, id \in 1..MaxAlarms, kw \in AlarmPartials \cup AlarmIdPartials :
          AlarmUpdate(c, id, kw)
    \/ \E c \in Callers, id \in 1..MaxAlarms : AlarmDelete(c, id)
    \/ \E c \in Callers, id \in 1..MaxTasks : TaskGet(c, id)
    \/ \E c \in Callers, spec \in TaskCreates : TaskAdd(c, spec)
    \/ \E c \in Callers, id \in 1..MaxTasks, kw \in TaskPartials \cup TaskNonePartials :
          TaskUpdate(c, id, kw)
    \/ \E c \in Callers, id \in 1..MaxTasks : TaskDelete(c, id)
    \/ \E th \in Threads : Persist(th)
    \/ \E th \in Threads : SaveOpen(th)
    \/ \E th \in Threads : SaveDump(th)
    \/ \E th \in Threads : SaveReplace(th)
    \/ \E c \in Callers : Return(c)
    \/ \E path \in Targets : LoadBegin(path)
    \/ LoadRead
    \/ Crash
    \/ Restart

SpecStore == InitStore /\ [][NextStore]_vars

\* ------------------------------------------------------------- claims: store and CRUD
\* C5: saving a scheduler's collection and loading the document into a fresh
\* scheduler gives the same set of records, except that every loaded alarm
\* has ringing=false.
C5_RoundTrip ==
    /\ LET back == LoadAlarms(JsonText("alarms", Dump(alarmObj, alarmKeys)))
       IN  {back[k] : k \in DOMAIN back}
             = {[alarmObj[k] EXCEPT !.ringing = FALSE] : k \in alarmKeys}
    /\ LET back == LoadTasks(JsonText("tasks", Dump(taskObj, taskKeys)))
       IN  {back[k] : k \in DOMAIN back} = {taskObj[k] : k \in taskKeys}

\* C6: a target file is changed only by the rename that ends a save, and then
\* to the whole new document; so at every moment, a crash included, it holds
\* the document committed before or the new one, is never partial and never
\* goes away; and no load reads a partial document.
C6_AtomicReplace ==
    /\ [](\A p \in Targets : files[p].exists => files[p].whole)
    /\ [](loader.doc.exists => loader.doc.whole)
    /\ [][\A p \in Targets :
            \/ files'[p] = files[p]
            \/ \E th \in Threads :
                  /\ pc[th] = "save_replace" /\ PathOf(th) = p
                  /\ files'[p] = JsonText(DocKey(p), snap[th])]_vars

\* the process has died while json.dump was writing a new alarms document
\* over a committed one
C6_Witness ==
    /\ ~up
    /\ files[_ALARMS_FILE].exists /\ files[_ALARMS_FILE].whole
    /\ files[TmpOf(_ALARMS_FILE)].exists /\ ~files[TmpOf(_ALARMS_FILE)].whole
    /\ files[TmpOf(_ALARMS_FILE)].rows # <<>>
    /\ files[TmpOf(_ALARMS_FILE)].rows # files[_ALARMS_FILE].rows

\* whether the id of a call is a key of the scheduler the call is made on
InCollection(call) ==
    IF call.mgr = "alarm" THEN call.id \in alarmKeys ELSE call.id \in taskKeys

\* C10: get, update and delete called with an id that is not a key return
\* the not-found signal and leave both collections and all files as they were,
\* in the alarm and in the task scheduler.
C10_NotFoundNoEffect ==
    [][\A c \in Callers :
         /\ (/\ pc[c] = "idle" /\ pc'[c] # "idle"
             /\ ret'[c].op \in {"get", "update", "delete"}
             /\ ~InCollection(ret'[c]))
            => /\ ~ret'[c].found
               /\ pc'[c] = "return"
               /\ UNCHANGED <<alarmObj, alarmKeys, taskObj, taskKeys, files>>
         /\ (pc[c] = "return" /\ ~ret[c].found /\ up')
            => /\ pc'[c] \in {"return", "idle"}
               /\ UNCHANGED <<alarmObj, alarmKeys, taskObj, taskKeys, files>>]_vars

\* a delete of an absent id is returning not-found on a task scheduler that
\* holds a task and has a tasks file
C10_Witness ==
    \E c \in Callers :
       /\ pc[c] = "return" /\ ret[c].op = "delete" /\ ret[c].mgr = "task"
       /\ ~ret[c].found
       /\ taskKeys # {} /\ files[_TASKS_FILE].exists

\* C9: dismiss(id) on an alarm of the collection sets its ringing to false
\* and changes no other field and no other alarm, which is what
\* update(id, ringing=False) computes; the call then saves a snapshot of the
\* collection before it returns.  On another id it returns not-found and
\* changes neither the collection nor a file.
C9_DismissFrame ==
    [][\A c \in Callers :
         /\ (pc[c] = "idle" /\ pc'[c] # "idle" /\ ret'[c].op = "dismiss")
            => LET id == ret'[c].id IN
               IF id \in alarmKeys
               THEN /\ ret'[c].found /\ pc'[c] = "persist"
                    /\ ~alarmObj'[id].ringing
                    /\ alarmObj'[id] = [alarmObj[id] EXCEPT !.ringing = FALSE]
                    /\ \A r \in DOMAIN alarmObj \ {id} : alarmObj'[r] = alarmObj[r]
                    /\ alarmObj' = [alarmObj EXCEPT
                                      ![id] = ApplyPartial(@, Kw([ringing |-> FALSE], {}))]
                    /\ UNCHANGED <<alarmKeys, files>>
               ELSE /\ ~ret'[c].found /\ pc'[c] = "return"
                    /\ UNCHANGED <<alarmObj, alarmKeys, files>>
         /\ (ret[c].op = "dismiss" /\ pc[c] # "return" /\ pc'[c] = "return" /\ up')
            => IF ret[c].found
               THEN /\ pc[c] = "save_replace"
                    /\ files'[_ALARMS_FILE] = JsonText("alarms", snap[c])
               ELSE UNCHANGED <<alarmObj, alarmKeys, files>>]_vars

\* the second call made is a dismiss of an alarm that has rung this minute
C9_Witness ==
    \E c \in Callers :
       /\ calls = 2 /\ pc[c] = "persist"
       /\ ret[c].op = "dismiss" /\ ret[c].found
       /\ rings[ret[c].id] = 1
       /\ alarmObj[ret[c].id].active /\ ~alarmObj[ret[c].id].ringing

\* ------------------------------------------------------------- claims: update and add
\* the scheduler a call is made on: its objects, its keys, its file
ObjsOf(call) == IF call.mgr = "alarm" THEN alarmObj ELSE taskObj
KeysOf(call) == IF call.mgr = "alarm" THEN alarmKeys ELSE taskKeys
FileOf(call) == IF call.mgr = "alarm" THEN _ALARMS_FILE ELSE _TASKS_FILE

\* the place of key k in the saved list
RowOf(keys, k) == CHOOSE i \in 1..Cardinality(keys) : KeyList(keys)[i] = k

C12_AddPersisted ==
    [][\A c \in Callers :
         /\ (pc[c] = "idle" /\ pc'[c] # "idle" /\ ret'[c].op = "add")
            => LET call == ret'[c]
                   old == ObjsOf(call)
                   new == IF call.mgr = "alarm" THEN alarmObj' ELSE taskObj'
                   keys == IF call.mgr = "alarm" THEN alarmKeys' ELSE taskKeys'
               IN  /\ keys = KeysOf(call) \cup {call.id}
                   /\ new[call.id].id = call.id
                   /\ \A r \in DOMAIN old : new[r] = old[r]
         /\ (pc[c] = "return" /\ pc'[c] = "idle" /\ up' /\ ret[c].op = "add")
            => LET call == ret[c]
                   doc == files[FileOf(call)]
               IN  /\ Found(KeysOf(call), call.id)
                   /\ doc.whole
                   /\ \E i \in DOMAIN doc.rows : doc.rows[i].id = call.id]_vars

\* ------------------------------------------------------------- lifecycle of the evaluators
\* Both evaluators under start and stop called in any order and number, on
\* empty collections: every pass of either loop scans and finds nothing due.
InitLife == InitProcess /\ clock = AlarmStartClock

\* the steps of AlarmManager._tick_loop on a pass that fires nothing
TickerStep ==
    \/ TickLoop
    \/ TickSnapshot
    \/ TickCheck
    \/ TickWake

\* the steps of TaskManager._monitor_loop on a pass that fires nothing
MonitorStep ==
    \/ MonLoop
    \/ MonSnapshot
    \/ MonCheck
    \/ MonWaitReturns

NextLife ==
    \/ AlarmStart
    \/ AlarmStartAgain
    \/ AlarmStop
    \/ TaskStart
    \/ TaskStartAgain
    \/ TaskStop
    \/ TickerStep
    \/ MonitorStep
    \/ AdvanceAlarmClock

SpecLife == InitLife /\ [][NextLife]_vars

\* C13: start() and stop() of both schedulers raise no error whatever the
\* order of the calls, and a scheduler whose last call was start() has its
\* loop running.
C13_IdempotentLifecycle ==
    /\ faults.raised \cap {"AlarmManager.start", "TaskManager.start"} = {}
    /\ alarmRun => pc["ticker"] # "done"
    /\ taskRun => pc["monitor"] # "done"

\* the loops are scheduled whenever they can take a step
SpecLifeFair ==
    InitLife /\ [][NextLife]_vars /\ WF_vars(TickerStep) /\ WF_vars(MonitorStep)

\* a loop that was started, has not exited, and whose scheduler was told to stop
TickerStopping == ~alarmRun /\ pc["ticker"] \notin {"unstarted", "done"}
MonitorStopping == ~taskRun /\ pc["monitor"] \notin {"unstarted", "done"}

\* a loop blocked in time.sleep / Event.wait whose time has not come yet
TickerAsleep == pc["ticker"] = "sleep" /\ clock < tick.wake
MonitorAsleep == pc["monitor"] = "wait" /\ ~taskRun /\ clock < mon.wake

\* C14: once stop() was called on a started scheduler its loop exits: the
\* wake-up check that finds the flag cleared leaves the loop, a pass is begun
\* only by a check that found the flag set, stop() changes the flag and
\* nothing of the loop, and a stopped loop that is not blocked in its sleep
\* goes on until it has exited (or start() set the flag again, or it sleeps
\* and time has yet to pass).
C14_StopExitsLoop ==
    /\ [][(pc["ticker"] = "loop" /\ ~alarmRun /\ pc'["ticker"] # "loop")
            => pc'["ticker"] = "done"]_vars
    /\ [][(pc["ticker"] # "snapshot" /\ pc'["ticker"] = "snapshot")
            => (pc["ticker"] = "loop" /\ alarmRun)]_vars
    /\ [][(pc["monitor"] = "loop" /\ ~taskRun /\ pc'["monitor"] # "loop")
            => pc'["monitor"] = "done"]_vars
    /\ [][(pc["monitor"] # "snapshot" /\ pc'["monitor"] = "snapshot")
            => (pc["monitor"] = "loop" /\ taskRun)]_vars
    /\ [][((alarmRun /\ ~alarmRun') \/ (taskRun /\ ~taskRun')) => pc' = pc]_vars
    /\ (TickerStopping /\ ~TickerAsleep)
          ~> (pc["ticker"] = "done" \/ alarmRun \/ TickerAsleep)
    /\ (MonitorStopping /\ ~MonitorAsleep)
          ~> (pc["monitor"] = "done" \/ taskRun \/ MonitorAsleep)

\* a loop has exited after running passes, its scheduler stopped
C14_Witness ==
    /\ pc["ticker"] = "done" /\ ~alarmRun
    /\ pc["monitor"] = "done" /\ ~taskRun
    /\ clock > AlarmStartClock

\* C15: no record of the persisted alarms document has ringing = true,
\* whichever call or fire wrote the document.
C15_RingingNeverPersisted ==
    \A i \in DOMAIN files[_ALARMS_FILE].rows : ~files[_ALARMS_FILE].rows[i].ringing

\* ------------------------------------------------------------- failures during a fire
\* Both evaluators on a store that was loaded at construction with MaxAlarms
\* alarms due at 07:00 and MaxTasks tasks whose reminder is due at 09:50; no
\* CRUD call is made.  A ring or reminder callback may raise, the notifier may
\* fail to spawn, and a save may raise.
LoadedAlarms ==
    [k \in 1..MaxAlarms |->
        NewAlarm(k, [time |-> "07:00", label |-> "", repeat |-> {}, active |-> TRUE])]
LoadedTasks ==
    [k \in 1..MaxTasks |->
        NewTask(k, [title |-> "t", date |-> "2024-01-01", time |-> "10:00",
                    reminder |-> DEFAULT_REMINDER])]

\* the process constructed on a store that holds `as` and `ts`: both managers
\* loaded their document, no thread is started
InitHosted(as, ts, player) ==
    /\ up = TRUE /\ crashes = 0 /\ calls = 0
    /\ clock = AlarmStartClock
    /\ alarmObj = as /\ alarmKeys = DOMAIN as /\ nextAlarm = Len(as) + 1
    /\ taskObj = ts /\ taskKeys = DOMAIN ts /\ nextTask = Len(ts) + 1
    /\ files = [p \in Paths |->
                  IF p = _ALARMS_FILE /\ as # <<>> THEN JsonText("alarms", Dump(as, DOMAIN as))
                  ELSE IF p = _TASKS_FILE /\ ts # <<>> THEN JsonText("tasks", Dump(ts, DOMAIN ts))
                  ELSE AbsentFile]
    /\ storeLock = NoThread
    /\ pc = [th \in Threads |-> IF th \in Callers THEN "idle" ELSE "unstarted"]
    /\ snap = [th \in Threads |-> <<>>]
    /\ loader = IdleLoader
    /\ faults = NoFaults
    /\ ret = [c \in Callers |-> NoCall]
    /\ kept = [c \in Callers |-> NoValue]
    /\ snd = player
    /\ mgrLock = NoHolder
    /\ alarmRun = FALSE /\ tick = IdleTick
    /\ rings = [r \in 1..MaxAlarms |-> 0] /\ watch = {}
    /\ taskRun = FALSE /\ mon = IdleMon
    /\ notes = [r \in 1..MaxTasks |-> NoNotes]
    /\ latched = {} /\ cleared = {}

InitLoaded(as, ts) == InitHosted(as, ts, NoSound)

InitFault == InitLoaded(LoadedAlarms, LoadedTasks)

Evaluators == {"ticker", "monitor"}

\* The instants at which these runs are observed: second 0 of 07:00 and the
\* second after it, the reminder time 09:50:00 and the first centisecond
\* after its window.
FaultInstants ==
    {WatchBase, WatchBase + CsPerSecond, Due0, Due0 + FIRE_WINDOW_S * CsPerSecond + 1}

AdvanceFaultClock ==
    /\ \E i \in FaultInstants : i > clock
    /\ clock' = Min({i \in FaultInstants : i > clock})
    /\ UNCHANGED <<loader, kept, snd, mgrLock, faults, procVars, files, storeLock, pc, snap, ret, alarmVars, taskVars>>

NextFault ==
    \/ AlarmStart
    \/ TaskStart
    \/ TickLoop
    \/ TickSnapshot
    \/ TickCheck
    \/ TickFireSet
    \/ TickFireCb
    \/ TickFireCbRaises
    \/ TickWake
    \/ MonLoop
    \/ MonSnapshot
    \/ MonCheck
    \/ MonFireSet
    \/ MonNotify
    \/ MonNotifyFails
    \/ MonCallback
    \/ MonCallbackRaises
    \/ MonWaitReturns
    \/ \E th \in Evaluators : Persist(th)
    \/ \E th \in Evaluators : SaveWrite(th)
    \/ \E th \in Evaluators : SaveReplace(th)
    \/ \E th \in Evaluators : SaveFails(th)
    \/ AdvanceFaultClock

SpecFault == InitFault /\ [][NextFault]_vars

\* C16: a save that raises during a fire ends neither evaluator loop.
C16_SaveFailureAbsorbed == \A th \in Evaluators : pc[th] # "dead"

\* the persisted record of entity `k` in the document at `path` has `flag` set
PersistedFlag(fs, path, k, flag) ==
    /\ fs[path].whole
    /\ \E i \in DOMAIN fs[path].rows : fs[path].rows[i].id = k /\ fs[path].rows[i][flag]

DayAlarms ==
    <<NewAlarm(1, [time |-> "07:00", label |-> "", repeat |-> {}, active |-> TRUE])>>

InitDays == InitLoaded(DayAlarms, <<>>)

\* the instants of AlarmInstants, one after the other
AdvanceDayClock ==
    /\ \E i \in AlarmInstants : i > clock
    /\ clock' = Min({i \in AlarmInstants : i > clock})
    /\ UNCHANGED <<loader, kept, snd, mgrLock, faults, procVars, files, storeLock, pc, snap, ret, alarmVars, taskVars>>

NextDays ==
    \/ \E c \in Callers, id \in DOMAIN DayAlarms : AlarmDismiss(c, id)
    \/ \E c \in Callers, id \in DOMAIN DayAlarms : AlarmUpdate(c, id, Kw([active |-> FALSE], {}))
    \/ AlarmStart
    \/ TickLoop
    \/ TickSnapshot
    \/ TickCheck
    \/ TickFireSet
    \/ TickFireCb
    \/ TickWake
    \/ \E th \in Threads : Persist(th)
    \/ \E th \in Threads : SaveWrite(th)
    \/ \E th \in Threads : SaveReplace(th)
    \/ \E c \in Callers : Return(c)
    \/ AdvanceDayClock

SpecDays == InitDays /\ [][NextDays]_vars

\* C18: dismissing an alarm that fired leaves it active and not ringing, and
\* an alarm with an empty repeat set that fired is not fired again on a
\* later day: over all days it rings at most once.
C18_EmptyRepeatFiresOnce ==
    /\ [][\A c \in Callers :
            (ret'[c].op = "dismiss" /\ ret[c].op # "dismiss" /\ ret'[c].found)
              => /\ alarmObj'[ret'[c].id].active = alarmObj[ret'[c].id].active
                 /\ ~alarmObj'[ret'[c].id].ringing]_vars
    /\ [](\A a \in alarmKeys : alarmObj[a].repeat = {} => rings[a] <= 1)

\* the ticker tests the next candidate of its scan, an active alarm with an
\* empty repeat set whose time is the minute of the tick
ScansDueAlarm ==
    /\ pc["ticker"] = "check" /\ tick' # tick
    /\ tick.cands # <<>>
    /\ LET alarm == alarmObj[Head(tick.cands)]
       IN  alarm.active /\ alarm.repeat = {} /\ alarm.time = HHMM(tick.now)

\* no step of the ticker changes the active flag of an alarm
EvaluatorKeepsActive ==
    (pc'["ticker"] # pc["ticker"] \/ tick' # tick)
      => \A a \in alarmKeys : alarmObj'[a].active = alarmObj[a].active

C20_IdImmutable ==
    /\ \A k \in alarmKeys : alarmObj[k].id = k
    /\ \A k \in taskKeys : taskObj[k].id = k

\* ------------------------------------------------------------- values handed to callers
\* Both managers on a store that holds one alarm and one task; callers read
\* with get and get_all, keep what they were handed, and later update,
\* dismiss and delete, while the ticker fires the alarm at 07:00.
ViewTasks ==
    <<NewTask(1, [title |-> "t", date |-> "2024-01-01", time |-> "10:00",
                  reminder |-> DEFAULT_REMINDER])>>

InitView == InitLoaded(DayAlarms, ViewTasks)

NextView ==
    \/ \E c \in Callers, id \in DOMAIN DayAlarms : AlarmGetKept(c, id)
    \/ \E c \in Callers : AlarmGetAll(c)
    \/ \E c \in Callers, id \in DOMAIN ViewTasks : TaskGetKept(c, id)
    \/ \E c \in Callers : TaskGetAll(c)
    \/ \E c \in Callers : KeptWrite(c)
    \/ \E c \in Callers, id \in DOMAIN DayAlarms : AlarmUpdate(c, id, Kw([active |-> FALSE], {}))
    \/ \E c \in Callers, id \in DOMAIN DayAlarms : AlarmDismiss(c, id)
    \/ \E c \in Callers, id \in DOMAIN DayAlarms : AlarmDelete(c, id)
    \/ \E c \in Callers, id \in DOMAIN ViewTasks : TaskUpdate(c, id, Kw([done |-> TRUE], {}))
    \/ \E c \in Callers, id \in DOMAIN ViewTasks : TaskDelete(c, id)
    \/ AlarmStart
    \/ TickLoop
    \/ TickSnapshot
    \/ TickCheck
    \/ TickFireSet
    \/ TickFireCb
    \/ TickWake
    \/ \E th \in Threads : Persist(th)
    \/ \E th \in Threads : SaveWrite(th)
    \/ \E th \in Threads : SaveReplace(th)
    \/ \E c \in Callers : Return(c)
    \/ AdvanceFaultClock

SpecView == InitView /\ [][NextView]_vars

\* the objects of the manager a kept value came from
KeptObjs(c) == IF kept[c].mgr = "alarm" THEN alarmObj ELSE taskObj

\* C21: what get and get_all hand out is a copy: the fields a caller reads
\* through a value it kept stay as they were when the call returned,
\* whatever update, dismiss, delete or fire comes later, and an assignment
\* the caller makes to that value changes no stored entity.
C21_ReturnsSnapshotCopy ==
    /\ [](\A c \in Callers : \A i \in DOMAIN kept[c].refs :
             kept[c].refs[i] \in DOMAIN KeptObjs(c)
               => KeptObjs(c)[kept[c].refs[i]] = kept[c].seen[i])
    /\ [][(\E c \in Callers : kept'[c] # kept[c] /\ kept'[c].refs = kept[c].refs
                                /\ pc'[c] = "idle" /\ pc[c] = "idle")
           => /\ \A k \in alarmKeys : alarmObj'[k] = alarmObj[k]
              /\ \A k \in taskKeys : taskObj'[k] = taskObj[k]]_vars

\* ------------------------------------------------------------- start on a store found on disk
\* The process is started on a data directory whose two documents are in any
\* of these conditions: absent, a text that does not parse, an object without
\* the expected member, a top-level array, an object whose member is a
\* number, or a document with one record.  Callers then add entities; the
\* process may crash and be started again.
FoundFiles(key, row) ==
    { AbsentFile,
      PartialText(key, <<row>>, 0),
      JsonText("other", <<>>),
      JsonListText,
      JsonScalarText(key),
      JsonText(key, <<row>>) }

InitLoad ==
    /\ up = FALSE /\ crashes = 0 /\ calls = 0
    /\ clock = AlarmStartClock
    /\ \E fa \in FoundFiles("alarms", DayAlarms[1]), ft \in FoundFiles("tasks", ViewTasks[1]) :
          files = [p \in Paths |->
                     IF p = _ALARMS_FILE THEN fa ELSE IF p = _TASKS_FILE THEN ft ELSE AbsentFile]
    /\ storeLock = NoThread
    /\ pc = [th \in Threads |-> IF th \in Callers THEN "idle" ELSE "unstarted"]
    /\ snap = [th \in Threads |-> <<>>]
    /\ loader = IdleLoader
    /\ faults = NoFaults
    /\ ret = [c \in Callers |-> NoCall]
    /\ kept = [c \in Callers |-> NoValue]
    /\ snd = NoSound
    /\ mgrLock = NoHolder
    /\ alarmObj = [k \in {} |-> 0] /\ alarmKeys = {} /\ nextAlarm = 2
    /\ alarmRun = FALSE /\ tick = IdleTick
    /\ rings = [r \in 1..MaxAlarms |-> 0] /\ watch = {}
    /\ taskObj = [k \in {} |-> 0] /\ taskKeys = {} /\ nextTask = 2
    /\ taskRun = FALSE /\ mon = IdleMon
    /\ notes = [r \in 1..MaxTasks |-> NoNotes]
    /\ latched = {} /\ cleared = {}

NextLoad ==
    \/ Restart
    \/ Crash
    \/ \E c \in Callers : nextAlarm <= MaxAlarms /\ AlarmAdd(c, DayAlarms[1])
    \/ \E c \in Callers : nextTask <= MaxTasks /\ TaskAdd(c, ViewTasks[1])
    \/ \E c \in Callers : Persist(c)
    \/ \E c \in Callers : SaveWrite(c)
    \/ \E c \in Callers : SaveReplace(c)
    \/ \E c \in Callers : Return(c)

SpecLoad == InitLoad /\ [][NextLoad]_vars

\* a document no collection can be read from
Unusable(file, key) ==
    ~file.exists \/ ~file.whole \/ file.shape # "doc" \/ file.key # key

\* C22: a load of an absent or corrupt document raises nothing; the manager
\* is constructed with an empty collection and the start leaves every file
\* as it found it.
C22_LoadToleratesCorruption ==
    /\ []("load" \notin faults.raised)
    /\ [][(~up /\ up')
            => /\ files' = files
               /\ Unusable(files[_ALARMS_FILE], "alarms") => alarmKeys' = {}
               /\ Unusable(files[_TASKS_FILE], "tasks") => taskKeys' = {}]_vars

\* ---------------------------------------------------------------------
\* The sound engine: play_sound_once for a synthesized profile, and the
\* AlarmPlayer thread that loops it.
\* ---------------------------------------------------------------------

\* the pause of the default profile, centiseconds
PAUSE_CS == 10

\* the clock is observed every half pause, for MaxPauses pauses
MaxPauses == 2

SoundStep == PAUSE_CS \div 2

soundRest ==
    <<up, crashes, files, storeLock, pc, snap, loader, ret, kept, mgrLock, calls,
      alarmObj, alarmKeys, nextAlarm, alarmRun, tick, rings, watch,
      taskObj, taskKeys, nextTask, taskRun, mon, notes, latched, cleared>>

\* Event.wait(timeout) that returns only when the timeout has passed
WaitOver_TimeoutOnly(flag, now, wake) == now >= wake

\* Event.wait(timeout) is over when the event is set or the timeout has passed
WaitOver(flag, now, wake) == flag \/ now >= wake

\* AlarmPlayer.start()
PlayerStart ==
    /\ snd.pc = "unstarted"
    /\ snd' = [snd EXCEPT !.pc = "test"]
    /\ UNCHANGED <<soundRest, clock, faults>>

\* AlarmPlayer.start() on a thread that was started before
PlayerStartAgain ==
    /\ snd.pc # "unstarted"
    /\ "player.start" \notin faults.raised
    /\ faults' = [faults EXCEPT !.raised = @ \cup {"player.start"}]
    /\ UNCHANGED <<soundRest, clock, snd>>

\* AlarmPlayer.stop()
PlayerStop ==
    /\ ~snd.stop
    /\ snd' = [snd EXCEPT !.stop = TRUE]
    /\ UNCHANGED <<soundRest, clock, faults>>

\* the loop's test; a play begins when the event is clear
LoopTest ==
    /\ snd.pc = "test"
    /\ snd' = IF snd.stop
              THEN [snd EXCEPT !.pc = "exited"]
              ELSE [snd EXCEPT !.pc = "native", !.tried = <<>>, !.heard = "none"]
    /\ UNCHANGED <<soundRest, clock, faults>>

\* if _SOUNDDEVICE: try _play_via_sounddevice, return; except: pass
PlayNative ==
    /\ snd.pc = "native"
    /\ snd' = IF snd.env.sd = "absent" THEN [snd EXCEPT !.pc = "simple"]
              ELSE IF snd.env.sd = "ok"
              THEN [snd EXCEPT !.pc = "returned", !.heard = "native",
                               !.tried = Append(@, "native")]
              ELSE [snd EXCEPT !.pc = ExceptPass("simple"), !.tried = Append(@, "native")]
    /\ UNCHANGED <<soundRest, clock, faults>>

\* if _SIMPLEAUDIO: try _play_via_simpleaudio, return; except: pass
PlaySimple ==
    /\ snd.pc = "simple"
    /\ snd' = IF snd.env.sa = "absent" THEN [snd EXCEPT !.pc = "process"]
              ELSE IF snd.env.sa = "ok"
              THEN [snd EXCEPT !.pc = "returned", !.heard = "simple",
                               !.tried = Append(@, "simple")]
              ELSE [snd EXCEPT !.pc = ExceptPass("process"), !.tried = Append(@, "simple")]
    /\ UNCHANGED <<soundRest, clock, faults>>

\* try _play_via_subprocess, return; except: pass.  _play_via_subprocess
\* returns without playing on a platform it does not know, and does not
\* look at the exit status of the player it waited for.
PlayProcess ==
    /\ snd.pc = "process"
    /\ snd' = IF snd.env.system = "Other"
              THEN [snd EXCEPT !.pc = "returned", !.tried = Append(@, "process")]
              ELSE IF snd.env.player = "raises"
              THEN [snd EXCEPT !.pc = ExceptPass("bell"), !.tried = Append(@, "process")]
              ELSE [snd EXCEPT !.pc = "returned", !.tried = Append(@, "process"),
                               !.heard = IF snd.env.player = "ok" THEN "process" ELSE "none"]
    /\ UNCHANGED <<soundRest, clock, faults>>

\* _play_via_beep()
PlayBell ==
    /\ snd.pc = "bell"
    /\ snd' = [snd EXCEPT !.pc = "returned", !.heard = "bell", !.tried = Append(@, "bell")]
    /\ UNCHANGED <<soundRest, clock, faults>>

\* self._stop_event.wait(timeout=pause) begins
LoopWait ==
    /\ snd.pc = "returned"
    /\ snd' = [snd EXCEPT !.pc = "pause", !.wake = clock + PAUSE_CS]
    /\ UNCHANGED <<soundRest, clock, faults>>

\* self._stop_event.wait(timeout=pause) returns
LoopWaitReturns ==
    /\ snd.pc = "pause"
    /\ WaitOver(snd.stop, clock, snd.wake)
    /\ snd' = [snd EXCEPT !.pc = "test"]
    /\ UNCHANGED <<soundRest, clock, faults>>

PlayerStep ==
    \/ LoopTest
    \/ PlayNative
    \/ PlaySimple
    \/ PlayProcess
    \/ PlayBell
    \/ LoopWait
    \/ LoopWaitReturns

AdvanceSoundClock ==
    /\ clock < AlarmStartClock + MaxPauses * PAUSE_CS
    /\ clock' = clock + SoundStep
    /\ UNCHANGED <<soundRest, snd, faults>>

InitSound == \E env \in Hosts : InitHosted(<<>>, <<>>, NewPlayer(env))

NextSound ==
    \/ PlayerStart
    \/ PlayerStartAgain
    \/ PlayerStop
    \/ PlayerStep
    \/ AdvanceSoundClock

SpecSound == InitSound /\ [][NextSound]_vars

\* the loop thread runs whenever it can; the clock and the callers of
\* start() and stop() are under no such obligation
SpecSoundFair == SpecSound /\ WF_vars(PlayerStep)

\* a tier that cannot play on this host: missing, or it fails when tried
NativeDown == snd.env.sd # "ok"
SimpleDown == snd.env.sa # "ok"
ProcessDown == snd.env.system = "Other" \/ snd.env.player # "ok"

\* <<a, b>> occur in `tried` in this order, if both occur
InOrder(a, b) ==
    \A i, j \in DOMAIN snd.tried : (snd.tried[i] = a /\ snd.tried[j] = b) => i < j

\* C23: for a synthesized profile, play_sound_once tries the mechanisms in
\* the order native API, simple library, player process, terminal bell; a
\* tier is tried exactly when it is there and every earlier tier was
\* unavailable or raised; the call never raises; and when every earlier tier
\* is unavailable or fails, the terminal bell is emitted.
C23_FallbackChain ==
    /\ snd.pc # "dead"
    /\ InOrder("native", "simple") /\ InOrder("simple", "process") /\ InOrder("process", "bell")
    /\ InOrder("native", "process") /\ InOrder("native", "bell") /\ InOrder("simple", "bell")
    /\ snd.pc = "returned" =>
        /\ "native" \in Range(snd.tried) <=> snd.env.sd # "absent"
        /\ "simple" \in Range(snd.tried) <=> (snd.env.sa # "absent" /\ NativeDown)
        /\ "process" \in Range(snd.tried) <=> (NativeDown /\ SimpleDown)
        /\ "bell" \in Range(snd.tried) <=> (NativeDown /\ SimpleDown /\ ProcessDown)
        /\ (NativeDown /\ SimpleDown /\ ProcessDown) => snd.heard = "bell"

\* C24: once stop() was raised no new play begins; a stop raised during the
\* pause ends the pause at once; a stop raised during a play takes effect
\* when the play ends; and the loop thread then terminates, without waiting
\* for the clock.
C24_StopEndsLoop ==
    /\ [][(snd.pc = "test" /\ snd'.pc = "native") => ~snd.stop]_vars
    /\ [][(snd.pc # "exited" /\ snd'.pc = "exited") => (snd.pc = "test" /\ snd.stop)]_vars
    /\ []((snd.stop /\ snd.pc = "pause") => ENABLED LoopWaitReturns)
    /\ (snd.stop /\ snd.pc # "unstarted") ~> (snd.pc = "exited")

\* a player that played, was stopped and whose thread has ended
C24_Witness == snd.pc = "exited" /\ snd.heard # "none"

\* C25: while the task scheduler is started and not stopped, the wait
\* between two passes of the reminder monitor lasts the full interval: it
\* returns before its timeout only if the stop signal has been raised.
C25_WaitLastsInterval ==
    [][(pc["monitor"] = "wait" /\ pc'["monitor"] = "loop" /\ taskRun)
          => clock >= mon.wake]_vars

\* C26: a save of the alarm collection and a save of the task collection
\* never contend: no thread that is to enter storage.save_* for one
\* collection finds the store lock held by a thread saving the other.
C26_SavesNeverContend ==
    \A t \in Threads :
        (pc[t] = "save_open" /\ storeLock # NoThread) => MgrOf(storeLock) = MgrOf(t)

\* ---------------------------------------------------------------------
\* Both schedulers started on a store that holds one alarm and one task,
\* with a caller that dismisses the alarm and completes or deletes the task
\* while the evaluators fire.
\* ---------------------------------------------------------------------
NextShared ==
    \/ \E c \in Callers, id \in DOMAIN DayAlarms : AlarmDismiss(c, id)
    \/ \E c \in Callers, id \in DOMAIN ViewTasks : TaskUpdate(c, id, Kw([done |-> TRUE], {}))
    \/ \E c \in Callers, id \in DOMAIN ViewTasks : TaskDelete(c, id)
    \/ AlarmStart
    \/ TaskStart
    \/ TickLoop
    \/ TickSnapshot
    \/ TickCheck
    \/ TickFireSet
    \/ TickFireCb
    \/ TickWake
    \/ MonLoop
    \/ MonSnapshot
    \/ MonCheck
    \/ MonFireSet
    \/ MonNotify
    \/ MonCallback
    \/ MonWaitReturns
    \/ \E th \in Threads : Persist(th)
    \/ \E th \in Threads : SaveWrite(th)
    \/ \E th \in Threads : SaveReplace(th)
    \/ \E c \in Callers : Return(c)
    \/ AdvanceFaultClock

SpecShared == InitView /\ [][NextShared]_vars

\* where a thread is inside storage.save_*, a callback or the notifier
InSave == {"save_open", "save_dump", "save_replace"}
InPresentation == {"fire_cb", "notify", "callback"}

\* C27: a scheduler lock is held only for the in-memory read or mutation (it
\* is free whenever no thread is inside such a block): no thread holds one
\* while it is in a store write, in the ring or reminder
\* callback or in the OS notification, so the lock of an evaluator's
\* scheduler is free for CRUD calls during the evaluator's I/O and callbacks.
C27_LockNotHeldAcrossIO ==
    /\ \A m \in DOMAIN mgrLock : Unlocked(m)
    /\ \A th \in Threads :
          pc[th] \in InSave \cup InPresentation
              => /\ \A m \in DOMAIN mgrLock : mgrLock[m] # th
                 /\ Unlocked(MgrOf(th))

\* a CRUD call on the alarm scheduler went through its locked block while the
\* ticker was in the ring callback, and one on the task scheduler while the
\* monitor was in a store write
C27_Witness ==
    \/ pc["ticker"] = "fire_cb" /\ pc["c1"] = "persist" /\ ret["c1"].mgr = "alarm"
    \/ pc["monitor"] \in InSave /\ pc["c1"] = "persist" /\ ret["c1"].mgr = "task"

\* ---------------------------------------------------------------------
\* An update of two fields, one setattr at a time, racing the ticker's scan.
\* ---------------------------------------------------------------------

\* an inactive alarm at 07:00
RaceAlarms ==
    <<NewAlarm(1, [time |-> "07:00", label |-> "", repeat |-> {}, active |-> FALSE])>>

\* PATCH {active: true, repeat: ["Tue"]}, the keywords in the order of the
\* fields of AlarmUpdate
RaceUpdate == Kw([active |-> TRUE, repeat |-> {"Tue"}], {})

\* AlarmManager.update: the lock is taken, the alarm looked up and the first
\* keyword (active) set
AlarmUpdateBegin(c, id) ==
    /\ Enter(c)
    /\ Unlocked("alarm")
    /\ Found(alarmKeys, id)
    /\ mgrLock' = [mgrLock EXCEPT !["alarm"] = c]
    /\ ret' = [ret EXCEPT ![c] = [Call("update", "alarm", id, TRUE) EXCEPT !.kw = RaceUpdate]]
    /\ alarmObj' = [alarmObj EXCEPT ![id] = ApplyPartial(@, Kw([active |-> RaceUpdate.set.active], {}))]
    /\ pc' = [pc EXCEPT ![c] = "update_rest"]
    /\ watch' = watch \ {id}
    /\ UNCHANGED <<up, crashes, clock, loader, kept, snd, faults, files, storeLock, snap, alarmKeys, nextAlarm,
                   alarmRun, tick, rings, taskVars>>

\* AlarmManager.update: the remaining keyword (repeat) is set and the block left
AlarmUpdateEnd(c) ==
    /\ up /\ pc[c] = "update_rest"
    /\ mgrLock' = [mgrLock EXCEPT !["alarm"] = WithExit(c)]
    /\ alarmObj' = [alarmObj EXCEPT ![ret[c].id] = ApplyPartial(@, ret[c].kw)]
    /\ pc' = [pc EXCEPT ![c] = "persist"]
    /\ UNCHANGED <<procVars, clock, loader, kept, snd, faults, files, storeLock, snap, ret, alarmKeys, nextAlarm,
                   alarmRun, tick, rings, watch, taskVars>>

InitRace == InitLoaded(RaceAlarms, <<>>)

NextRace ==
    \/ \E c \in Callers, id \in DOMAIN RaceAlarms : AlarmUpdateBegin(c, id)
    \/ \E c \in Callers : AlarmUpdateEnd(c)
    \/ \E c \in Callers, id \in DOMAIN RaceAlarms : AlarmDismiss(c, id)
    \/ AlarmStart
    \/ TickLoop
    \/ TickSnapshot
    \/ TickCheck
    \/ TickFireSet
    \/ TickFireCb
    \/ TickWake
    \/ \E th \in Threads : Persist(th)
    \/ \E th \in Threads : SaveWrite(th)
    \/ \E th \in Threads : SaveReplace(th)
    \/ \E c \in Callers : Return(c)
    \/ AdvanceFaultClock

SpecRace == InitRace /\ [][NextRace]_vars

\* the ticker reads the fields of the next alarm of its list in this step
ScanReads == pc["ticker"] = "check" /\ tick.cands # <<>> /\ tick'.cands = Tail(tick.cands)

\* C28: every read and write of a scheduler's collection and of the fields
\* of its entities is made by a thread that holds the scheduler's lock: the
\* scan reads an alarm's fields only while no other thread is inside a
\* locked block, and so never fires on a combination of field values that
\* an update had only half applied (here: an alarm that is inactive before
\* the update, and for Tuesdays only after it, does not fire on a Monday).
C28_AllAccessUnderLock ==
    /\ [][ScanReads => Unlocked("alarm")]_vars
    /\ [](DayName(clock) = "Mon" => rings[1] = 0)

\* thread th comes to position p in this step
Enters(th, p) == pc[th] # p /\ pc'[th] = p

\* the ring callback, the OS notification, the reminder callback is made
\* for entity r in this step
Rung(r) == rings'[r] > rings[r]
Notified(r) == notes'[r].os > notes[r].os
CalledBack(r) == notes'[r].cb > notes[r].cb

InFire == {"fire_set", "fire_cb", "persist", "notify", "callback"} \cup InSave

\* no CRUD call and no fire is in progress on scheduler m
Quiet(m) ==
    /\ \A c \in Callers : pc[c] = "idle" \/ ret[c].mgr # m
    /\ pc[IF m = "alarm" THEN "ticker" ELSE "monitor"] \notin InFire

\* C30: whenever no CRUD call and no fire is in progress on a scheduler, its
\* persisted document equals its in-memory collection, the same ids with
\* the same field values: of two overlapping persists the one that writes
\* last never writes the older snapshot.
C30_PersistedEqualsMemory ==
    /\ Quiet("alarm") => files[_ALARMS_FILE] = JsonText("alarms", Dump(alarmObj, alarmKeys))
    /\ Quiet("task") => files[_TASKS_FILE] = JsonText("tasks", Dump(taskObj, taskKeys))

\* ---------------------------------------------------------------------
\* Both schedulers started on a store that holds one alarm and one task,
\* with a caller that deletes them while the evaluators run their passes.
\* ---------------------------------------------------------------------
NextGone ==
    \/ \E c \in Callers, id \in DOMAIN DayAlarms : AlarmDelete(c, id)
    \/ \E c \in Callers, id \in DOMAIN ViewTasks : TaskDelete(c, id)
    \/ AlarmStart
    \/ TaskStart
    \/ TickLoop
    \/ TickSnapshot
    \/ TickCheck
    \/ TickFireSet
    \/ TickFireCb
    \/ TickWake
    \/ MonLoop
    \/ MonSnapshot
    \/ MonCheck
    \/ MonFireSet
    \/ MonNotify
    \/ MonCallback
    \/ MonWaitReturns
    \/ \E th \in Threads : Persist(th)
    \/ \E th \in Threads : SaveWrite(th)
    \/ \E th \in Threads : SaveReplace(th)
    \/ \E c \in Callers : Return(c)
    \/ AdvanceFaultClock

SpecGone == InitView /\ [][NextGone]_vars

WantsMgrLock == {"snapshot", "fire_set", "persist"}
WantsStoreLock == {"save_open"}

\* scheduler locks thread th holds
HeldBy(th) == {m \in DOMAIN mgrLock : mgrLock[m] = th}

\* C32: the system is deadlock-free.  No thread requests the store lock
\* while it holds a scheduler lock, nor a scheduler lock while it holds the
\* store lock or the other scheduler's lock; the holder of the store lock is
\* inside its write and can finish it, and a thread that requests a
\* scheduler lock can take it, so no set of threads waits forever on the
\* alarm lock, the task lock and the store lock.
C32_DeadlockFree ==
    /\ \A th \in Threads :
          /\ pc[th] \in WantsStoreLock => HeldBy(th) = {}
          /\ pc[th] \in WantsMgrLock => (HeldBy(th) = {} /\ storeLock # th)
          /\ (th \in Callers /\ pc[th] = "idle") => (HeldBy(th) = {} /\ storeLock # th)
    /\ storeLock # NoThread
          => (pc[storeLock] \in {"save_dump", "save_replace"} /\ HeldBy(storeLock) = {}
              /\ ENABLED (SaveDump(storeLock) \/ SaveReplace(storeLock)))
    /\ \A th \in Threads : pc[th] = "persist" => ENABLED Persist(th)
    /\ pc["ticker"] \in {"snapshot", "fire_set"} => ENABLED (TickSnapshot \/ TickFireSet)
    /\ pc["monitor"] \in {"snapshot", "fire_set"} => ENABLED (MonSnapshot \/ MonFireSet)

\* the caller and the monitor both wait for the store lock, which the ticker
\* holds in its save
C32_Witness ==
    /\ storeLock = "ticker"
    /\ pc["c1"] = "save_open" /\ pc["monitor"] = "save_open"

====
